---- MODULE Spec2Model ----
(***************************************************************************)
(* Model of the Macro-Man MCP tool server (src/src/macro_man).             *)
(*                                                                         *)
(* One tool invocation is served at a time.  A handler that blocks on the  *)
(* outside world (subprocess.run, httpx.post) is split at that call: the   *)
(* first action runs the handler up to the call, the second one delivers   *)
(* the outcome of the call and runs the handler to its end.                *)
(* The calls of get_settings() are the exception: they are modelled per    *)
(* thread, one step of the wrapper of lru_cache at a time; so is           *)
(* write_file where it is called from several threads at once.             *)
(* run_server is split at mcp.run, which blocks while requests are served. *)
(*                                                                         *)
(* Python str values are TLA+ strings, except the text of a file, which is *)
(* a tuple of code points; a Python exception is a record                  *)
(* [cls, message, error_code, field].                                      *)
(***************************************************************************)
EXTENDS Integers, Sequences, FiniteSets, TLC

VARIABLES
    pc,       \* "idle" | "subprocess" | "http" | "done": position of the handler
    call,     \* the invocation being served: [tool, ...arguments]
    frame,    \* local variables of the handler while it waits for the outside
    result,   \* what the caller of the tool function gets
    procs,    \* subprocess.run calls started by the current invocation
    http,     \* httpx.post calls issued by the current invocation
    received, \* what subprocess.run or httpx.post gave back to the handler
    environ,  \* EMAIL_SERVICE_URL of the process environment, or None
    settings, \* the value lru_cache holds for get_settings()
    fs,       \* the file system: what each path of TreePaths holds
    linesep,  \* os.linesep of the platform the server runs on
    lastWrite, \* history: path and content of the write_file that succeeded
               \* last, while no later call has been made on that path
    threads,  \* each thread's position in its call of get_settings(), or of
              \* write_file where threads write in parallel
    constructed, \* how many Settings objects have been constructed
    server    \* run_server of the process: where it is, what the logger of
              \* core/server.py has written, what the transport and
              \* run_server itself ended with

vars == <<pc, call, frame, result, procs, http, received, environ, settings,
          fs, linesep, lastWrite, threads, constructed, server>>

(***************************************************************************)
(* Python values                                                           *)
(***************************************************************************)
\* Python's None where the other values of the argument are strings
None == "<None>"

Pending == [status |-> "pending"]
Returned(v) == [status |-> "returned", value |-> v]
Raised(e) == [status |-> "raised", exc |-> e]

\* run_server has not been called
NotStarted == [at |-> "init", log |-> <<>>, transport |-> Pending, outcome |-> Pending]

NoCall == [tool |-> "none"]
NoFrame == [tool |-> "none"]
Nothing == [kind |-> "none"]

\* no write_file has succeeded yet, or another call on its path came after it
NoWrite == [path |-> None, content |-> <<>>]

(***************************************************************************)
(* str methods                                                             *)
(***************************************************************************)
\* characters removed by str.strip() that occur in the model's inputs
Whitespace == {" ", "\t", "\n", "\r"}

RECURSIVE LStrip(_)
LStrip(s) ==
    IF s = "" THEN ""
    ELSE IF Head(s) \in Whitespace THEN LStrip(Tail(s)) ELSE s

RECURSIVE RStrip(_)
RStrip(s) ==
    IF s = "" THEN ""
    ELSE IF SubSeq(s, Len(s), Len(s)) \in Whitespace
         THEN RStrip(SubSeq(s, 1, Len(s) - 1))
         ELSE s

\* str.strip()
Strip(s) == RStrip(LStrip(s))

UpperToLower ==
    [A |-> "a", B |-> "b", C |-> "c", D |-> "d", E |-> "e", F |-> "f",
     G |-> "g", H |-> "h", I |-> "i", J |-> "j", K |-> "k", L |-> "l",
     M |-> "m", N |-> "n", O |-> "o", P |-> "p", Q |-> "q", R |-> "r",
     S |-> "s", T |-> "t", U |-> "u", V |-> "v", W |-> "w", X |-> "x",
     Y |-> "y", Z |-> "z"]

LowerToUpper ==
    [a |-> "A", b |-> "B", c |-> "C", d |-> "D", e |-> "E", f |-> "F",
     g |-> "G", h |-> "H", i |-> "I", j |-> "J", k |-> "K", l |-> "L",
     m |-> "M", n |-> "N", o |-> "O", p |-> "P", q |-> "Q", r |-> "R",
     s |-> "S", t |-> "T", u |-> "U", v |-> "V", w |-> "W", x |-> "X",
     y |-> "Y", z |-> "Z"]

RECURSIVE Lower(_)
\* str.lower()
Lower(s) ==
    IF s = "" THEN ""
    ELSE (IF Head(s) \in DOMAIN UpperToLower THEN UpperToLower[Head(s)] ELSE Head(s))
         \o Lower(Tail(s))

RECURSIVE Upper(_)
\* str.upper()
Upper(s) ==
    IF s = "" THEN ""
    ELSE (IF Head(s) \in DOMAIN LowerToUpper THEN LowerToUpper[Head(s)] ELSE Head(s))
         \o Upper(Tail(s))

\* sub in s
Contains(s, sub) ==
    \E i \in 1..(Len(s) - Len(sub) + 1) : SubSeq(s, i, i + Len(sub) - 1) = sub

DigitChars == <<"0", "1", "2", "3", "4", "5", "6", "7", "8", "9">>

RECURSIVE NatStr(_)
NatStr(n) ==
    IF n < 10 THEN DigitChars[n + 1]
    ELSE NatStr(n \div 10) \o DigitChars[(n % 10) + 1]

\* str(n) / f"{n}" of an int
IntStr(n) == IF n < 0 THEN "-" \o NatStr(0 - n) ELSE NatStr(n)

(***************************************************************************)
(* Exceptions                                                              *)
(***************************************************************************)
\* direct base class of every exception class the handlers can meet
Bases ==
    [Exception |-> "BaseException",
     MacroManError |-> "Exception",
     ValidationError |-> "MacroManError",
     ValueError |-> "Exception",
     KeyError |-> "Exception",
     TypeError |-> "Exception",
     AttributeError |-> "Exception",
     OSError |-> "Exception",
     FileNotFoundError |-> "OSError",
     FileExistsError |-> "OSError",
     PermissionError |-> "OSError",
     IsADirectoryError |-> "OSError",
     NotADirectoryError |-> "OSError",
     UnicodeError |-> "ValueError",
     UnicodeEncodeError |-> "UnicodeError",
     UnicodeDecodeError |-> "UnicodeError",
     JSONDecodeError |-> "ValueError",
     SubprocessError |-> "Exception",
     TimeoutExpired |-> "SubprocessError",
     RequestError |-> "Exception",
     TimeoutException |-> "RequestError",
     ConnectTimeout |-> "TimeoutException",
     ReadTimeout |-> "TimeoutException",
     ConnectError |-> "RequestError",
     ReadError |-> "RequestError",
     TooManyRedirects |-> "RequestError",
     InvalidURL |-> "Exception",
     RuntimeError |-> "Exception",
     PydanticValidationError |-> "ValueError",
     KeyboardInterrupt |-> "BaseException",
     SystemExit |-> "BaseException"]

RECURSIVE IsSubclass(_, _)
IsSubclass(cls, base) ==
    \/ cls = base
    \/ cls \in DOMAIN Bases /\ IsSubclass(Bases[cls], base)

\* does "except base" catch e
Catches(base, e) == IsSubclass(e.cls, base)

MacroManError(message) ==
    [cls |-> "MacroManError", message |-> message,
     error_code |-> "GENERIC_ERROR", field |-> None]

ValidationError(message, field) ==
    [cls |-> "ValidationError", message |-> message,
     error_code |-> "VALIDATION_ERROR", field |-> field]

\* an exception of a class this repository does not define
Foreign(cls, message) ==
    [cls |-> cls, message |-> message, error_code |-> None, field |-> None]

\* str(e)
Str(e) == e.message

\* "no exception was raised", where a raised exception is the other outcome
NoException == [cls |-> "none"]

(***************************************************************************)
(* tools/system.py: execute_command                                        *)
(***************************************************************************)
dangerous_commands == {"rm -rf", "sudo", "su", "chmod 777", "dd if=", "mkfs"}

\* the checks before subprocess.run: the exception raised, or NoException
ExecuteCommandValidate(command) ==
    IF command = "" \/ Strip(command) = ""
    THEN ValidationError("Command cannot be empty", "command")
    ELSE IF \E dangerous \in dangerous_commands : Contains(Lower(command), dangerous)
    THEN ValidationError("Command contains potentially dangerous operations", "command")
    ELSE NoException

\* ExecuteCommandExcept, had the clause for subprocess.TimeoutExpired been
\* left out
ExecuteCommandExceptNoTimeoutClause(e, timeout) ==
    IF Catches("Exception", e)
    THEN MacroManError("Failed to execute command: " \o Str(e))
    ELSE e

\* the except clauses of execute_command
ExecuteCommandExcept(e, timeout) ==
    IF Catches("TimeoutExpired", e)
    THEN MacroManError("Command timed out after " \o IntStr(timeout) \o " seconds")
    ELSE IF Catches("Exception", e)
    THEN MacroManError("Failed to execute command: " \o Str(e))
    ELSE e

\* the runtime hands a request to a handler only when none is running
Accepting == pc = "idle"

\* the runtime has sent the handler's outcome to the client and waits for the
\* next request
Reply ==
    /\ pc = "done"
    /\ pc' = "idle"
    /\ call' = NoCall
    /\ frame' = NoFrame
    /\ result' = Pending
    /\ procs' = <<>>
    /\ http' = <<>>
    /\ received' = Nothing
    /\ lastWrite' = IF /\ call.tool \in {"read_file", "read_json_file"}
                       /\ lastWrite.path = call.file_path
                    THEN NoWrite
                    ELSE lastWrite
    /\ UNCHANGED <<environ, settings, fs, linesep, threads, constructed, server>>

\* execute_command up to and including the start of subprocess.run
ExecuteCommand(command, timeout) ==
    /\ Accepting
    /\ call' = [tool |-> "execute_command", command |-> command, timeout |-> timeout]
    /\ UNCHANGED <<http, received, environ, settings, fs, linesep, lastWrite, threads,
                   constructed, server>>
    /\ LET e == ExecuteCommandValidate(command) IN
         IF e.cls # "none"
         THEN /\ procs' = <<>>
              /\ frame' = NoFrame
              /\ result' = Raised(ExecuteCommandExcept(e, timeout))
              /\ pc' = "done"
         ELSE /\ procs' = <<[args |-> command, shell |-> TRUE, timeout |-> timeout]>>
              /\ frame' = [tool |-> "execute_command", command |-> command,
                           timeout |-> timeout]
              /\ result' = Pending
              /\ pc' = "subprocess"

\* what subprocess.run can do: complete with a return code, or raise
SubprocessOutcomes ==
    [kind : {"completed"}, returncode : {0, 1, 127}, stdout : {"", "hi\n"}, stderr : {"", "err\n"}]
    \cup {[kind |-> "raise", exc |-> Foreign("TimeoutExpired", "Command timed out")],
          [kind |-> "raise", exc |-> Foreign("OSError", "Cannot allocate memory")]}

\* execute_command from the return of subprocess.run to its end
SubprocessReturns(out) ==
    /\ pc = "subprocess"
    /\ frame.tool = "execute_command"
    /\ result' =
         IF out.kind = "raise"
         THEN Raised(ExecuteCommandExcept(out.exc, frame.timeout))
         ELSE Returned([command |-> frame.command,
                        return_code |-> out.returncode,
                        stdout |-> out.stdout,
                        stderr |-> out.stderr,
                        success |-> (out.returncode = 0)])
    /\ pc' = "done"
    /\ frame' = NoFrame
    /\ received' = out
    /\ UNCHANGED <<call, procs, http, environ, settings, fs, linesep, lastWrite,
                   threads, constructed, server>>

(***************************************************************************)
(* tools/email.py: elaborate_email_body and its helpers                    *)
(***************************************************************************)
\* any(word in combined for word in words)
AnyWordIn(words, combined) ==
    \E i \in 1..Len(words) : Contains(combined, words[i])

detect_email_type(text, subject) ==
    LET combined == Lower(text) \o " " \o Lower(subject) IN
    IF AnyWordIn(<<"hello", "hi", "hey", "greetings", "good morning",
                   "good afternoon">>, combined)
    THEN "greeting"
    ELSE IF AnyWordIn(<<"meeting", "schedule", "appointment", "call",
                        "discuss">>, combined)
    THEN "meeting"
    ELSE IF AnyWordIn(<<"thank", "thanks", "appreciate", "grateful">>, combined)
    THEN "thanks"
    ELSE IF AnyWordIn(<<"question", "ask", "wonder", "?", "how", "what", "when",
                        "where", "why">>, combined)
    THEN "question"
    ELSE IF AnyWordIn(<<"update", "status", "progress", "report", "inform">>,
                      combined)
    THEN "update"
    ELSE IF AnyWordIn(<<"request", "need", "please", "could you", "would you">>,
                      combined)
    THEN "request"
    ELSE "general"

templates ==
    [greeting |->
        [opening |-> "I hope this email finds you well.",
         closing |-> "I look forward to hearing from you soon.\n\nBest regards"],
     meeting |->
        [opening |-> "I hope you're doing well.",
         closing |-> "Please let me know if this time works for you, or if you'd prefer an alternative time.\n\nBest regards"],
     thanks |->
        [opening |-> "I hope this message finds you in good spirits.",
         closing |-> "Once again, thank you for your time and consideration.\n\nWarm regards"],
     question |->
        [opening |-> "I hope you're doing well.",
         closing |-> "I appreciate your time and look forward to your response.\n\nBest regards"],
     update |->
        [opening |-> "I hope this email finds you well.",
         closing |-> "Please let me know if you need any additional information or have any questions.\n\nBest regards"],
     request |->
        [opening |-> "I hope you're doing well.",
         closing |-> "I understand this may require some time, and I appreciate your consideration.\n\nThank you for your time and assistance.\n\nBest regards"],
     general |->
        [opening |-> "I hope this email finds you well.",
         closing |-> "I look forward to hearing from you.\n\nBest regards"]]

expansions ==
    [greeting |-> "I wanted to reach out and connect with you. ",
     meeting |-> "I'd like to schedule a meeting to discuss this further. ",
     thanks |-> "I wanted to express my sincere gratitude. ",
     question |-> "I have a question that I hope you can help me with. ",
     update |-> "I wanted to provide you with an update on this matter. ",
     request |-> "I have a request that I hope you can assist me with. ",
     general |-> "I wanted to share some information with you. "]

contexts ==
    [greeting |-> " I hope we can connect and discuss potential opportunities for collaboration.",
     meeting |-> " Please let me know your availability and I'll send over a calendar invite.",
     thanks |-> " Your assistance has been invaluable, and I truly appreciate your time and effort.",
     question |-> " I believe your expertise in this area would be very helpful.",
     update |-> " I'll continue to keep you informed as more information becomes available.",
     request |-> " I understand this may require some time, and I'm happy to provide any additional information you might need.",
     general |-> " Please let me know if you have any questions or need any clarification."]

add_additional_context(email_type) == contexts[email_type]

\* length below which _expand_brief_text appends the additional context
ShortTextLen == 20

expand_brief_text(text, email_type) ==
    LET capitalised ==
            IF text = "" THEN text
            ELSE IF Len(text) > 1
                 THEN Upper(SubSeq(text, 1, 1)) \o SubSeq(text, 2, Len(text))
                 ELSE Upper(text)
        expanded == expansions[email_type] \o capitalised
    IN  IF Len(capitalised) < ShortTextLen
        THEN expanded \o add_additional_context(email_type)
        ELSE expanded

generate_elaborated_content(brief_text, email_type, subject) ==
    LET text == IF subject # ""
                THEN brief_text \o " (Subject: " \o subject \o ")"
                ELSE brief_text
        template == templates[email_type]
    IN  template.opening \o "\n" \o "" \o "\n"
            \o expand_brief_text(text, email_type) \o "\n" \o "" \o "\n"
            \o template.closing

\* elaborate_email_body: [ok |-> TRUE, value] or [ok |-> FALSE, exc]
elaborate_email_body(brief_text, subject) ==
    IF brief_text = None \/ brief_text = "" \/ Strip(brief_text) = ""
    THEN [ok |-> FALSE, exc |-> ValidationError("Brief text cannot be empty", "brief_text")]
    ELSE LET text == Strip(brief_text) IN
         [ok |-> TRUE,
          value |-> generate_elaborated_content(
                        text, detect_email_type(text, subject), subject)]

(***************************************************************************)
(* Regular expressions of the email and calendar tools                     *)
(***************************************************************************)
Letters == DOMAIN UpperToLower \cup DOMAIN LowerToUpper
\* [0-9]; the inputs of the model hold no decimal digit outside ASCII
Digits == {DigitChars[i] : i \in 1..10}

\* every character of s is in chars
AllIn(s, chars) == \A i \in 1..Len(s) : SubSeq(s, i, i) \in chars

\* s matches a pattern given as one character class per position
MatchesClasses(s, classes) ==
    /\ Len(s) = Len(classes)
    /\ \A i \in 1..Len(s) : SubSeq(s, i, i) \in classes[i]

\* "$" of re.match: at the end of the string or before a final newline
UpToDollar(s) ==
    {s} \cup (IF s # "" /\ SubSeq(s, Len(s), Len(s)) = "\n"
              THEN {SubSeq(s, 1, Len(s) - 1)} ELSE {})

\* ^[a-zA-Z0-9._%+-]+@[a-zA-Z0-9.-]+\.[a-zA-Z]{2,}$
EmailLocalChars == Letters \cup Digits \cup {".", "_", "%", "+", "-"}
EmailDomainChars == Letters \cup Digits \cup {".", "-"}
\* {2,} of the last group of email_pattern
MinTldLen == 2

email_pattern(s) ==
    \E t \in UpToDollar(s) :
    \E i \in 1..Len(t), j \in 1..Len(t) :
        /\ 1 < i /\ i + 1 < j
        /\ SubSeq(t, i, i) = "@"
        /\ SubSeq(t, j, j) = "."
        /\ AllIn(SubSeq(t, 1, i - 1), EmailLocalChars)
        /\ AllIn(SubSeq(t, i + 1, j - 1), EmailDomainChars)
        /\ Len(t) - j >= MinTldLen
        /\ AllIn(SubSeq(t, j + 1, Len(t)), Letters)

\* ^\d{4}-\d{2}-\d{2}T\d{2}:\d{2}:\d{2}(?:Z|[+-]\d{2}:\d{2})$
IsoDateTimeClasses ==
    <<Digits, Digits, Digits, Digits, {"-"}, Digits, Digits, {"-"}, Digits, Digits,
      {"T"}, Digits, Digits, {":"}, Digits, Digits, {":"}, Digits, Digits>>
IsoOffsetClasses == <<{"+", "-"}, Digits, Digits, {":"}, Digits, Digits>>

\* iso_like without the final "$": text may follow the date-time
iso_like_unanchored(s) ==
    \E n \in 0..Len(s) :
        \/ MatchesClasses(SubSeq(s, 1, n), IsoDateTimeClasses \o <<{"Z"}>>)
        \/ MatchesClasses(SubSeq(s, 1, n), IsoDateTimeClasses \o IsoOffsetClasses)

\* re.match(iso_like, s)
iso_like(s) ==
    \E t \in UpToDollar(s) :
        \/ MatchesClasses(t, IsoDateTimeClasses \o <<{"Z"}>>)
        \/ MatchesClasses(t, IsoDateTimeClasses \o IsoOffsetClasses)

\* "not x or not x.strip()" of a str-or-None argument
Blank(x) == x = None \/ x = "" \/ Strip(x) = ""

(***************************************************************************)
(* JSON values of a response body, as response.json() returns them         *)
(***************************************************************************)
JNull == [t |-> "null"]
JBool(b) == [t |-> "bool", b |-> b]
JNum(n) == [t |-> "number", n |-> n]
JStr(s) == [t |-> "string", s |-> s]
JArr(a) == [t |-> "array", a |-> a]
JObj(o) == [t |-> "object", o |-> o]
\* the body is not JSON: response.json() raises ValueError
JInvalid == [t |-> "invalid"]

PyTypeName ==
    [null |-> "NoneType", bool |-> "bool", number |-> "int", string |-> "str",
     array |-> "list", object |-> "dict"]

\* f"{value}"
Format(j) ==
    CASE j.t = "string" -> j.s
      [] j.t = "null" -> "None"
      [] j.t = "bool" -> IF j.b THEN "True" ELSE "False"
      [] j.t = "number" -> IntStr(j.n)

\* key in detail: [ok |-> TRUE, value] or [ok |-> FALSE, exc]
KeyIn(key, detail) ==
    CASE detail.t = "object" -> [ok |-> TRUE, value |-> key \in DOMAIN detail.o]
      [] detail.t = "string" -> [ok |-> TRUE, value |-> Contains(detail.s, key)]
      [] detail.t = "array" ->
            [ok |-> TRUE,
             value |-> \E i \in 1..Len(detail.a) :
                          detail.a[i].t = "string" /\ detail.a[i].s = key]
      [] OTHER ->
            [ok |-> FALSE,
             exc |-> Foreign("TypeError", "argument of type '" \o PyTypeName[detail.t]
                                          \o "' is not iterable")]

\* detail[key], for a key that passed "key in detail"
GetItem(detail, key) ==
    CASE detail.t = "object" -> [ok |-> TRUE, value |-> detail.o[key]]
      [] detail.t = "string" ->
            [ok |-> FALSE,
             exc |-> Foreign("TypeError", "string indices must be integers, not 'str'")]
      [] detail.t = "array" ->
            [ok |-> FALSE,
             exc |-> Foreign("TypeError", "list indices must be integers or slices, not str")]

\* d.get(key, default) of a dict
DictGet(d, key, default) == IF key \in DOMAIN d.o THEN d.o[key] ELSE default

(***************************************************************************)
(* config/settings.py                                                      *)
(***************************************************************************)
NoSettings == [cached |-> FALSE]

\* default of Settings.email_service_url
DefaultEmailServiceUrl == "http://localhost:3000"

\* Settings()
Settings ==
    [cached |-> TRUE,
     email_service_url |-> IF environ = None THEN DefaultEmailServiceUrl ELSE environ]

\* get_settings(): the value returned, which is also the value cached afterwards
get_settings == IF settings.cached THEN settings ELSE Settings

\* the threads of the process that call get_settings()
Threads == {1, 2}

\* a thread outside get_settings()
NotCalling == [pc |-> "out", made |-> NoSettings, got |-> NoSettings]

\* Settings(), with the identity of the object: the id-th one constructed
SettingsObject(id) ==
    [cached |-> TRUE,
     email_service_url |-> IF environ = None THEN DefaultEmailServiceUrl ELSE environ,
     id |-> id]

\* thread t calls get_settings(): the wrapper of lru_cache looks the call up
\* in its cache and returns the object found; when none is there it calls
\* the function, holding no lock
GetSettingsCall(t) ==
    /\ threads[t].pc = "out"
    /\ threads' = [threads EXCEPT ![t] =
          IF settings.cached
          THEN [pc |-> "returned", made |-> NoSettings, got |-> settings]
          ELSE [pc |-> "missed", made |-> NoSettings, got |-> NoSettings]]
    /\ UNCHANGED <<pc, call, frame, result, procs, http, received, environ, settings,
                   fs, linesep, lastWrite, constructed, server>>

\* the body of get_settings() in thread t: Settings() reads the environment
SettingsConstruct(t) ==
    /\ threads[t].pc = "missed"
    /\ constructed' = constructed + 1
    /\ threads' = [threads EXCEPT ![t] =
          [pc |-> "made", made |-> SettingsObject(constructed'), got |-> NoSettings]]
    /\ UNCHANGED <<pc, call, frame, result, procs, http, received, environ, settings,
                   fs, linesep, lastWrite, server>>

\* the function has returned to the wrapper of lru_cache in thread t: the
\* object is stored unless the cache has got an entry in the meantime, and
\* it is returned in both cases
GetSettingsStore(t) ==
    /\ threads[t].pc = "made"
    /\ settings' = IF settings.cached THEN settings ELSE threads[t].made
    /\ threads' = [threads EXCEPT ![t] =
          [pc |-> "returned", made |-> NoSettings, got |-> threads[t].made]]
    /\ UNCHANGED <<pc, call, frame, result, procs, http, received, environ, fs, linesep,
                   lastWrite, constructed, server>>

\* the caller in thread t is done with the object it got
GetSettingsDone(t) ==
    /\ threads[t].pc = "returned"
    /\ threads' = [threads EXCEPT ![t] = NotCalling]
    /\ UNCHANGED <<pc, call, frame, result, procs, http, received, environ, settings,
                   fs, linesep, lastWrite, constructed, server>>

\* the environment of the process changes: os.environ is assigned
SetEnviron(value) ==
    /\ environ # value
    /\ environ' = value
    /\ UNCHANGED <<pc, call, frame, result, procs, http, received, settings, fs, linesep,
                   lastWrite, threads, constructed, server>>

(***************************************************************************)
(* The outbound call shared by tools/email.py and tools/calendar.py        *)
(***************************************************************************)
\* timeout=30.0 of every httpx.post
HttpTimeout == 30

\* httpx.post(url, json=payload, headers=..., timeout=30.0)
HttpPost(url, payload) ==
    [url |-> url, json |-> payload,
     headers |-> ("Content-Type" :> "application/json"),
     timeout |-> HttpTimeout]

\* the "else" branch of "if response.status_code == 200": always raises
ErrorResponse(response, text) ==
    LET error_msg == text.returned \o IntStr(response.status_code)
        detail == response.json
    IN  IF detail.t = "invalid"
        THEN MacroManError(error_msg \o ": " \o response.text)
        ELSE LET has == KeyIn("message", detail) IN
             IF ~has.ok THEN has.exc
             ELSE IF ~has.value THEN MacroManError(error_msg)
             ELSE LET item == GetItem(detail, "message") IN
                  IF ~item.ok THEN item.exc
                  ELSE MacroManError(error_msg \o ": " \o Format(item.value))

\* ServiceExcept with the RequestError clause moved to the front, where it
\* also catches the timeouts and the connection failures
ServiceExceptRequestErrorFirst(e, text) ==
    IF Catches("RequestError", e) THEN MacroManError(text.failed \o Str(e))
    ELSE IF Catches("TimeoutException", e) THEN MacroManError(text.timed_out)
    ELSE IF Catches("ConnectError", e) THEN MacroManError(text.connect)
    ELSE IF Catches("Exception", e) THEN MacroManError(text.unexpected \o Str(e))
    ELSE e

\* the except clauses around httpx.post, in the order of the source
ServiceExcept(e, text) ==
    IF Catches("TimeoutException", e) THEN MacroManError(text.timed_out)
    ELSE IF Catches("ConnectError", e) THEN MacroManError(text.connect)
    ELSE IF Catches("RequestError", e) THEN MacroManError(text.failed \o Str(e))
    ELSE IF Catches("Exception", e) THEN MacroManError(text.unexpected \o Str(e))
    ELSE e

\* the try statement of a *_via_service function, given what httpx.post did:
\* [ok |-> TRUE, value] or [ok |-> FALSE, exc]
ViaService(out, text) ==
    IF out.kind = "raise"
    THEN [ok |-> FALSE, exc |-> ServiceExcept(out.exc, text)]
    ELSE IF out.status_code = 200
    THEN IF out.json.t = "invalid"
         THEN [ok |-> FALSE,
               exc |-> ServiceExcept(
                   Foreign("ValueError", "Expecting value: line 1 column 1 (char 0)"),
                   text)]
         ELSE [ok |-> TRUE, value |-> out.json]
    ELSE [ok |-> FALSE, exc |-> ServiceExcept(ErrorResponse(out, text), text)]

EmailServiceText ==
    [returned |-> "Email service returned status ",
     timed_out |-> "Email service request timed out",
     connect |-> "Could not connect to email service at localhost:3000",
     failed |-> "Email service request failed: ",
     unexpected |-> "Unexpected error calling email service: "]

CalendarServiceText ==
    [returned |-> "Calendar service returned status ",
     timed_out |-> "Calendar service request timed out",
     connect |-> "Could not connect to calendar service at localhost:3000",
     failed |-> "Calendar service request failed: ",
     unexpected |-> "Unexpected error calling calendar service: "]

CalendarListServiceText ==
    [returned |-> "Calendar list service returned status ",
     timed_out |-> "Calendar list service request timed out",
     connect |-> "Could not connect to calendar service at localhost:3000",
     failed |-> "Calendar list service request failed: ",
     unexpected |-> "Unexpected error calling calendar list service: "]

send_email_via_service(out) == ViaService(out, EmailServiceText)
schedule_meet_via_service(out) == ViaService(out, CalendarServiceText)
list_events_via_service(out) == ViaService(out, CalendarListServiceText)

(***************************************************************************)
(* tools/email.py: send_email                                              *)
(***************************************************************************)
\* the argument checks of send_email, in order: the exception raised, or
\* NoException
SendEmailValidate(to, subject, body) ==
    IF Blank(to)
    THEN ValidationError("Recipient email address is required", "to")
    ELSE IF Blank(subject)
    THEN ValidationError("Email subject is required", "subject")
    ELSE IF Blank(body)
    THEN ValidationError("Email body is required", "body")
    ELSE IF ~email_pattern(Strip(to))
    THEN ValidationError("Invalid email address format", "to")
    ELSE NoException

\* SendEmailBody with the elaborate flag ignored: the body is always elaborated
SendEmailBodyAlwaysElaborated(body, subject, elaborate) ==
    LET el == elaborate_email_body(body, subject) IN
    IF el.ok THEN el
    ELSE [ok |-> FALSE,
          exc |-> MacroManError("Failed to elaborate email body: " \o Str(el.exc))]

\* the body send_email passes to the service: [ok, value] or [ok, exc]
SendEmailBody(body, subject, elaborate) ==
    IF elaborate
    THEN LET el == elaborate_email_body(body, subject) IN
         IF el.ok THEN el
         ELSE [ok |-> FALSE,
               exc |-> MacroManError("Failed to elaborate email body: " \o Str(el.exc))]
    ELSE [ok |-> TRUE, value |-> body]

\* SendEmailPayload with the body under the key "text"
SendEmailPayloadTextKey(to, subject, body) ==
    [to |-> to, subject |-> subject, text |-> body]

\* payload of _send_email_via_service
SendEmailPayload(to, subject, body) == [to |-> to, subject |-> subject, body |-> body]

\* send_email up to and including httpx.post
SendEmail(to, subject, body, elaborate) ==
    /\ Accepting
    /\ call' = [tool |-> "send_email", to |-> to, subject |-> subject,
                body |-> body, elaborate |-> elaborate]
    /\ UNCHANGED <<procs, received, environ, fs, linesep, lastWrite, threads, server>>
    /\ LET e == SendEmailValidate(to, subject, body) IN
         IF e.cls # "none"
         THEN /\ result' = Raised(e)
              /\ pc' = "done"
              /\ UNCHANGED <<frame, http, settings, constructed>>
         ELSE LET to_c == Strip(to)
                  subject_c == Strip(subject)
                  body_c == Strip(body)
                  elaborated_body == SendEmailBody(body_c, subject_c, elaborate)
              IN  IF ~elaborated_body.ok
                  THEN /\ result' = Raised(elaborated_body.exc)
                       /\ pc' = "done"
                       /\ UNCHANGED <<frame, http, settings, constructed>>
                  ELSE /\ settings' = get_settings
                       /\ constructed' = IF settings.cached THEN constructed ELSE constructed + 1
                       /\ http' = Append(http,
                              HttpPost(settings'.email_service_url \o "/send-email",
                                       SendEmailPayload(to_c, subject_c,
                                                        elaborated_body.value)))
                       /\ frame' = [tool |-> "send_email", to |-> to_c,
                                    subject |-> subject_c,
                                    elaborated_body |-> elaborated_body.value,
                                    elaborate |-> elaborate]
                       /\ result' = Pending
                       /\ pc' = "http"

\* SendEmailReturn that reports every body as elaborated
SendEmailReturnElaboratedAlways(out) ==
    LET email_result == send_email_via_service(out) IN
    IF ~email_result.ok
    THEN Raised(MacroManError("Failed to send email: " \o Str(email_result.exc)))
    ELSE IF email_result.value.t # "object"
    THEN Raised(MacroManError("Failed to send email: "
                    \o "'" \o PyTypeName[email_result.value.t]
                    \o "' object has no attribute 'get'"))
    ELSE Returned(
           [success |-> DictGet(email_result.value, "success", JBool(FALSE)),
            message |-> DictGet(email_result.value, "message",
                                JStr("Email sending completed")),
            messageId |-> DictGet(email_result.value, "messageId", JNull),
            recipient |-> frame.to,
            subject |-> frame.subject,
            body_length |-> Len(frame.elaborated_body),
            elaborated |-> TRUE,
            details |-> email_result.value])

\* send_email from the return of httpx.post to its end
SendEmailReturn(out) ==
    LET email_result == send_email_via_service(out) IN
    IF ~email_result.ok
    THEN Raised(MacroManError("Failed to send email: " \o Str(email_result.exc)))
    ELSE IF email_result.value.t # "object"
    THEN Raised(MacroManError("Failed to send email: "
                    \o "'" \o PyTypeName[email_result.value.t]
                    \o "' object has no attribute 'get'"))
    ELSE Returned(
           [success |-> DictGet(email_result.value, "success", JBool(FALSE)),
            message |-> DictGet(email_result.value, "message",
                                JStr("Email sending completed")),
            messageId |-> DictGet(email_result.value, "messageId", JNull),
            recipient |-> frame.to,
            subject |-> frame.subject,
            body_length |-> Len(frame.elaborated_body),
            elaborated |-> frame.elaborate,
            details |-> email_result.value])

(***************************************************************************)
(* tools/calendar.py: schedule_meet and list_events                        *)
(***************************************************************************)
\* attendees and maxResults are [t |-> "none"] for None, and otherwise carry
\* their Python type in t and their value in the field of that type
PyNone == [t |-> "none"]
PyList(l) == [t |-> "list", l |-> l]
PyInt(n) == [t |-> "int", n |-> n]
PyBool(b) == [t |-> "bool", b |-> b]
PyStr(x) == [t |-> "str", s |-> x]

RECURSIVE validate_emails_unchecked(_)
\* validate_emails without the match against email_pattern
validate_emails_unchecked(attendees) ==
    IF attendees = <<>> THEN [ok |-> TRUE, value |-> <<>>]
    ELSE LET email == Head(attendees) IN
         IF Blank(email)
         THEN [ok |-> FALSE,
               exc |-> ValidationError("Attendee email must be a non-empty string",
                                       "attendees")]
         ELSE LET rest == validate_emails_unchecked(Tail(attendees)) IN
              IF rest.ok
              THEN [ok |-> TRUE, value |-> <<Strip(email)>> \o rest.value]
              ELSE rest

RECURSIVE validate_emails(_)
\* _validate_emails: [ok |-> TRUE, value |-> cleaned] or [ok |-> FALSE, exc];
\* an element that is not a str is None in the model
validate_emails(attendees) ==
    IF attendees = <<>> THEN [ok |-> TRUE, value |-> <<>>]
    ELSE LET email == Head(attendees) IN
         IF Blank(email)
         THEN [ok |-> FALSE,
               exc |-> ValidationError("Attendee email must be a non-empty string",
                                       "attendees")]
         ELSE IF ~email_pattern(Strip(email))
         THEN [ok |-> FALSE,
               exc |-> ValidationError("Invalid attendee email format", "attendees")]
         ELSE LET rest == validate_emails(Tail(attendees)) IN
              IF rest.ok
              THEN [ok |-> TRUE, value |-> <<Strip(email)>> \o rest.value]
              ELSE rest

send_updates_values == {"all", "externalOnly", "none"}

\* the argument checks of schedule_meet, in order
ScheduleMeetValidate(title, start, end, attendees, sendUpdates) ==
    IF Blank(title) THEN ValidationError("Title is required", "title")
    ELSE IF Blank(start) THEN ValidationError("Start datetime is required", "start")
    ELSE IF Blank(end) THEN ValidationError("End datetime is required", "end")
    ELSE IF ~iso_like(Strip(start))
    THEN ValidationError("start must be ISO8601 like 2025-10-21T10:00:00Z", "start")
    ELSE IF ~iso_like(Strip(end))
    THEN ValidationError("end must be ISO8601 like 2025-10-21T10:30:00Z", "end")
    ELSE IF sendUpdates # None /\ sendUpdates \notin send_updates_values
    THEN ValidationError("sendUpdates must be one of: all, externalOnly, none",
                         "sendUpdates")
    ELSE IF attendees.t = "none" THEN NoException
    ELSE IF attendees.t # "list" \/ Len(attendees.l) = 0
    THEN ValidationError("attendees must be a non-empty list of emails", "attendees")
    ELSE LET cleaned == validate_emails(attendees.l) IN
         IF cleaned.ok THEN NoException ELSE cleaned.exc

\* d with d[key] = value
With(d, key, value) == (key :> value) @@ d

\* ScheduleMeetPayload that adds description and timeZone whenever they are
\* not None, blank or not, and untrimmed
ScheduleMeetPayloadNotSparse(title, description, start, end, timeZone, attendees, sendUpdates) ==
    LET p0 == [title |-> Strip(title), start |-> Strip(start), end |-> Strip(end)]
        p1 == IF description # None THEN With(p0, "description", description) ELSE p0
        p2 == IF timeZone # None THEN With(p1, "timeZone", timeZone) ELSE p1
        p3 == IF attendees.t # "none"
              THEN With(p2, "attendees", validate_emails(attendees.l).value) ELSE p2
    IN  IF sendUpdates # None THEN With(p3, "sendUpdates", sendUpdates) ELSE p3

\* the payload schedule_meet builds once its arguments passed the checks
ScheduleMeetPayload(title, description, start, end, timeZone, attendees, sendUpdates) ==
    LET p0 == [title |-> Strip(title), start |-> Strip(start), end |-> Strip(end)]
        p1 == IF description # None /\ Strip(description) # ""
              THEN With(p0, "description", Strip(description)) ELSE p0
        p2 == IF timeZone # None /\ Strip(timeZone) # ""
              THEN With(p1, "timeZone", Strip(timeZone)) ELSE p1
        p3 == IF attendees.t # "none"
              THEN With(p2, "attendees", validate_emails(attendees.l).value) ELSE p2
    IN  IF sendUpdates # None THEN With(p3, "sendUpdates", sendUpdates) ELSE p3

\* schedule_meet up to and including httpx.post
ScheduleMeet(title, description, start, end, timeZone, attendees, sendUpdates) ==
    /\ Accepting
    /\ call' = [tool |-> "schedule_meet", title |-> title, description |-> description,
                start |-> start, end |-> end, timeZone |-> timeZone,
                attendees |-> attendees, sendUpdates |-> sendUpdates]
    /\ UNCHANGED <<procs, received, environ, fs, linesep, lastWrite, threads, server>>
    /\ LET e == ScheduleMeetValidate(title, start, end, attendees, sendUpdates) IN
         IF e.cls # "none"
         THEN /\ result' = Raised(e)
              /\ pc' = "done"
              /\ UNCHANGED <<frame, http, settings, constructed>>
         ELSE /\ settings' = get_settings
              /\ constructed' = IF settings.cached THEN constructed ELSE constructed + 1
              /\ http' = Append(http,
                     HttpPost(settings'.email_service_url \o "/schedule-meet",
                              ScheduleMeetPayload(title, description, start, end,
                                                  timeZone, attendees, sendUpdates)))
              /\ frame' = [tool |-> "schedule_meet"]
              /\ result' = Pending
              /\ pc' = "http"

\* schedule_meet from the return of httpx.post to its end
ScheduleMeetReturn(out) ==
    LET r == schedule_meet_via_service(out) IN
    IF r.ok THEN Returned(r.value)
    ELSE Raised(MacroManError("Failed to schedule meeting: " \o Str(r.exc)))

\* ListEventsValidate that rejects a negative maxResults only: zero passes
ListEventsValidateAllowsZero(timeMin, timeMax, maxResults) ==
    IF Blank(timeMin) THEN ValidationError("timeMin is required", "timeMin")
    ELSE IF Blank(timeMax) THEN ValidationError("timeMax is required", "timeMax")
    ELSE IF ~iso_like(Strip(timeMin))
    THEN ValidationError("timeMin must be ISO8601 like 2025-10-20T00:00:00Z", "timeMin")
    ELSE IF ~iso_like(Strip(timeMax))
    THEN ValidationError("timeMax must be ISO8601 like 2025-10-27T23:59:59Z", "timeMax")
    ELSE IF maxResults.t # "none"
            /\ (maxResults.t \notin {"int", "bool"}
                \/ (IF maxResults.t = "bool" THEN FALSE ELSE maxResults.n < 0))
    THEN ValidationError("maxResults must be a positive integer", "maxResults")
    ELSE NoException

\* the argument checks of list_events, in order
ListEventsValidate(timeMin, timeMax, maxResults) ==
    IF Blank(timeMin) THEN ValidationError("timeMin is required", "timeMin")
    ELSE IF Blank(timeMax) THEN ValidationError("timeMax is required", "timeMax")
    ELSE IF ~iso_like(Strip(timeMin))
    THEN ValidationError("timeMin must be ISO8601 like 2025-10-20T00:00:00Z", "timeMin")
    ELSE IF ~iso_like(Strip(timeMax))
    THEN ValidationError("timeMax must be ISO8601 like 2025-10-27T23:59:59Z", "timeMax")
    ELSE IF maxResults.t # "none"
            /\ (maxResults.t \notin {"int", "bool"}
                \/ (IF maxResults.t = "bool" THEN ~maxResults.b ELSE maxResults.n <= 0))
    THEN ValidationError("maxResults must be a positive integer", "maxResults")
    ELSE NoException

\* the payload list_events builds once its arguments passed the checks
ListEventsPayload(timeMin, timeMax, maxResults, q) ==
    LET p0 == [timeMin |-> Strip(timeMin), timeMax |-> Strip(timeMax)]
        p1 == IF maxResults.t # "none" THEN With(p0, "maxResults", maxResults) ELSE p0
    IN  IF q # None /\ Strip(q) # "" THEN With(p1, "q", Strip(q)) ELSE p1

\* list_events up to and including httpx.post
ListEvents(timeMin, timeMax, maxResults, q) ==
    /\ Accepting
    /\ call' = [tool |-> "list_events", timeMin |-> timeMin, timeMax |-> timeMax,
                maxResults |-> maxResults, q |-> q]
    /\ UNCHANGED <<procs, received, environ, fs, linesep, lastWrite, threads, server>>
    /\ LET e == ListEventsValidate(timeMin, timeMax, maxResults) IN
         IF e.cls # "none"
         THEN /\ result' = Raised(e)
              /\ pc' = "done"
              /\ UNCHANGED <<frame, http, settings, constructed>>
         ELSE /\ settings' = get_settings
              /\ constructed' = IF settings.cached THEN constructed ELSE constructed + 1
              /\ http' = Append(http,
                     HttpPost(settings'.email_service_url \o "/list-events",
                              ListEventsPayload(timeMin, timeMax, maxResults, q)))
              /\ frame' = [tool |-> "list_events"]
              /\ result' = Pending
              /\ pc' = "http"

\* list_events from the return of httpx.post to its end
ListEventsReturn(out) ==
    LET r == list_events_via_service(out) IN
    IF r.ok THEN Returned(r.value)
    ELSE Raised(MacroManError("Failed to list events: " \o Str(r.exc)))

\* HttpReturns with one retry: a call that failed is posted a second time
HttpReturnsWithRetry(out) ==
    /\ pc = "http"
    /\ IF (out.kind = "raise" \/ out.status_code # 200) /\ Len(http) < 2
       THEN /\ http' = Append(http, http[Len(http)])
            /\ UNCHANGED <<pc, frame, result, received>>
       ELSE /\ result' = CASE frame.tool = "send_email" -> SendEmailReturn(out)
                          [] frame.tool = "schedule_meet" -> ScheduleMeetReturn(out)
                          [] frame.tool = "list_events" -> ListEventsReturn(out)
            /\ pc' = "done"
            /\ frame' = NoFrame
            /\ received' = out
            /\ UNCHANGED http
    /\ UNCHANGED <<call, procs, environ, settings, fs, linesep, lastWrite, threads,
                   constructed, server>>

\* httpx.post returns a response or raises: the waiting handler runs to its end
HttpReturns(out) ==
    /\ pc = "http"
    /\ result' = CASE frame.tool = "send_email" -> SendEmailReturn(out)
                   [] frame.tool = "schedule_meet" -> ScheduleMeetReturn(out)
                   [] frame.tool = "list_events" -> ListEventsReturn(out)
    /\ pc' = "done"
    /\ frame' = NoFrame
    /\ received' = out
    /\ UNCHANGED <<call, procs, http, environ, settings, fs, linesep, lastWrite,
                   threads, constructed, server>>

(***************************************************************************)
(* The file system and text-mode files, as tools/file_ops.py uses them     *)
(*                                                                         *)
(* The text a file tool reads or writes is a tuple of Unicode code points  *)
(* (a Python str, character by character); what a file holds is a tuple   *)
(* of bytes.  Paths are relative to the working directory of the server.   *)
(***************************************************************************)
LF == 10
CR == 13

\* the values os.linesep has on the platforms Python runs on
LineSeps == {<<LF>>, <<CR, LF>>}

HexDigits ==
    <<"0", "1", "2", "3", "4", "5", "6", "7", "8", "9", "a", "b", "c", "d", "e", "f">>

\* "%02x" % n
Hex2(n) == HexDigits[(n \div 16) + 1] \o HexDigits[(n % 16) + 1]

\* "%04x" % n
Hex4(n) == Hex2(n \div 256) \o Hex2(n % 256)

\* a code point no UTF-8 text contains: half of a UTF-16 pair
IsSurrogate(c) == c \in 55296..57343

\* the bytes of one code point under encoding="latin-1" where it has one
Latin1EncodeChar(c) ==
    IF c < 256 THEN <<c>>
    ELSE IF c < 2048 THEN <<192 + (c \div 64), 128 + (c % 64)>>
    ELSE IF c < 65536
    THEN <<224 + (c \div 4096), 128 + ((c \div 64) % 64), 128 + (c % 64)>>
    ELSE <<240 + (c \div 262144), 128 + ((c \div 4096) % 64),
           128 + ((c \div 64) % 64), 128 + (c % 64)>>

\* the UTF-8 bytes of one code point that is not a surrogate
Utf8EncodeChar(c) ==
    IF c < 128 THEN <<c>>
    ELSE IF c < 2048 THEN <<192 + (c \div 64), 128 + (c % 64)>>
    ELSE IF c < 65536
    THEN <<224 + (c \div 4096), 128 + ((c \div 64) % 64), 128 + (c % 64)>>
    ELSE <<240 + (c \div 262144), 128 + ((c \div 4096) % 64),
           128 + ((c \div 64) % 64), 128 + (c % 64)>>

RECURSIVE Utf8EncodeAll(_)
Utf8EncodeAll(text) ==
    IF text = <<>> THEN <<>>
    ELSE Utf8EncodeChar(Head(text)) \o Utf8EncodeAll(Tail(text))

\* the index after the run of surrogates that starts at index i of text
RECURSIVE SurrogateRunEnd(_, _)
SurrogateRunEnd(text, i) ==
    IF i <= Len(text) /\ IsSurrogate(text[i]) THEN SurrogateRunEnd(text, i + 1) ELSE i

\* the UnicodeEncodeError of the strict encoder for the surrogates at
\* indexes i .. j-1 of text (Python counts positions from 0)
UnicodeEncodeError(text, i, j) ==
    Foreign("UnicodeEncodeError",
        IF j = i + 1
        THEN "'utf-8' codec can't encode character '\\u" \o Hex4(text[i])
                 \o "' in position " \o NatStr(i - 1) \o ": surrogates not allowed"
        ELSE "'utf-8' codec can't encode characters in position " \o NatStr(i - 1)
                 \o "-" \o NatStr(j - 2) \o ": surrogates not allowed")

\* text.encode("utf-8"): the bytes, or the exception
Utf8Encode(text) ==
    IF \E i \in 1..Len(text) : IsSurrogate(text[i])
    THEN LET i == CHOOSE k \in 1..Len(text) :
                    /\ IsSurrogate(text[k])
                    /\ \A m \in 1..(k - 1) : ~IsSurrogate(text[m])
         IN [ok |-> FALSE, exc |-> UnicodeEncodeError(text, i, SurrogateRunEnd(text, i))]
    ELSE [ok |-> TRUE, bytes |-> Utf8EncodeAll(text)]

IsContinuation(b) == b \in 128..191

\* the length of the sequence a lead byte announces
Utf8Need(c) == IF c < 224 THEN 2 ELSE IF c < 240 THEN 3 ELSE 4

\* may byte b be the k-th byte of a sequence whose lead byte is c: the second
\* byte is restricted so that overlong forms, surrogates and code points
\* above U+10FFFF are refused
Utf8FollowOk(c, k, b) ==
    /\ IsContinuation(b)
    /\ k = 2 =>
         /\ c = 224 => b >= 160
         /\ c = 237 => b < 160
         /\ c = 240 => b >= 144
         /\ c = 244 => b < 144

\* the code point of the well-formed sequence of n bytes at index i of bytes
Utf8CodePoint(bytes, i, n) ==
    CASE n = 2 -> (bytes[i] - 192) * 64 + (bytes[i + 1] - 128)
      [] n = 3 -> (bytes[i] - 224) * 4096 + (bytes[i + 1] - 128) * 64
                      + (bytes[i + 2] - 128)
      [] n = 4 -> (bytes[i] - 240) * 262144 + (bytes[i + 1] - 128) * 4096
                      + (bytes[i + 2] - 128) * 64 + (bytes[i + 3] - 128)

\* the UnicodeDecodeError of the strict decoder for the bytes at indexes
\* i .. j-1 (Python counts positions from 0)
UnicodeDecodeError(bytes, i, j, reason) ==
    Foreign("UnicodeDecodeError",
        IF j = i + 1
        THEN "'utf-8' codec can't decode byte 0x" \o Hex2(bytes[i]) \o " in position "
                 \o NatStr(i - 1) \o ": " \o reason
        ELSE "'utf-8' codec can't decode bytes in position " \o NatStr(i - 1) \o "-"
                 \o NatStr(j - 2) \o ": " \o reason)

RECURSIVE Utf8DecodeFrom(_, _, _)
Utf8DecodeFrom(bytes, i, text) ==
    IF i > Len(bytes) THEN [ok |-> TRUE, text |-> text]
    ELSE LET c == bytes[i]
             have == Len(bytes) - i + 1
             need == Utf8Need(c)
             seen == IF have < need THEN have ELSE need
             bad == {k \in 2..seen : ~Utf8FollowOk(c, k, bytes[i + k - 1])}
         IN IF c < 128 THEN Utf8DecodeFrom(bytes, i + 1, Append(text, c))
            ELSE IF c < 194 \/ c > 244
            THEN [ok |-> FALSE,
                  exc |-> UnicodeDecodeError(bytes, i, i + 1, "invalid start byte")]
            ELSE IF bad # {}
            THEN LET k == CHOOSE x \in bad : \A y \in bad : x <= y
                 IN [ok |-> FALSE,
                     exc |-> UnicodeDecodeError(bytes, i, i + k - 1,
                                                "invalid continuation byte")]
            ELSE IF have < need
            THEN [ok |-> FALSE,
                  exc |-> UnicodeDecodeError(bytes, i, Len(bytes) + 1,
                                             "unexpected end of data")]
            ELSE Utf8DecodeFrom(bytes, i + need,
                                Append(text, Utf8CodePoint(bytes, i, need)))

\* bytes.decode("utf-8"): the text, or the exception
Utf8Decode(bytes) == Utf8DecodeFrom(bytes, 1, <<>>)

\* what a file opened with open(path, "w") and no newline argument does to
\* the text written: every "\n" becomes os.linesep
RECURSIVE WriteTranslate(_, _)
WriteTranslate(text, sep) ==
    IF text = <<>> THEN <<>>
    ELSE (IF Head(text) = LF THEN sep ELSE <<Head(text)>>)
             \o WriteTranslate(Tail(text), sep)

\* what a file opened with open(path) and no newline argument does to the
\* text read: "\r\n" and a lone "\r" both become "\n"
RECURSIVE UniversalNewlines(_)
UniversalNewlines(text) ==
    IF text = <<>> THEN <<>>
    ELSE IF Head(text) = CR
    THEN IF Len(text) > 1 /\ text[2] = LF
         THEN <<LF>> \o UniversalNewlines(Tail(Tail(text)))
         ELSE <<LF>> \o UniversalNewlines(Tail(text))
    ELSE <<Head(text)>> \o UniversalNewlines(Tail(text))

Absent == [kind |-> "absent"]
Directory == [kind |-> "dir"]
RegularFile(bytes) == [kind |-> "file", bytes |-> bytes]

\* a symbolic link to the path target, which is not itself a link
SymLink(target) == [kind |-> "link", target |-> target]

\* the paths the model's file system has an entry for, besides "."
TreePaths == {"notes.txt", "out", "out/log.txt", "data"}

\* the working directory of the server process
Cwd == "/srv/macro-man"

\* str(path.parent) of a relative path
RECURSIVE Parent(_)
Parent(p) ==
    IF p = "" THEN "."
    ELSE IF SubSeq(p, Len(p), Len(p)) = "/" THEN SubSeq(p, 1, Len(p) - 1)
    ELSE Parent(SubSeq(p, 1, Len(p) - 1))

\* str(path.absolute()) of a relative path
Absolute(p) == Cwd \o "/" \o p

\* what the directory of p holds under the name of p: os.lstat
Entry(tree, p) ==
    IF p = "." THEN Directory
    ELSE IF p \in DOMAIN tree THEN tree[p]
    ELSE Absent

\* the path p leads to: the target of p when p is a symbolic link
Resolve(tree, p) ==
    IF Entry(tree, p).kind = "link" THEN Entry(tree, p).target ELSE p

\* what p leads to: os.stat
Node(tree, p) == Entry(tree, Resolve(tree, p))

\* path.exists(): false as well when a parent is not a directory and when p
\* is a symbolic link to nothing
RECURSIVE Exists(_, _)
Exists(tree, p) ==
    \/ p = "."
    \/ /\ Entry(tree, p).kind # "absent"
       /\ Exists(tree, Parent(p))
       /\ Node(tree, Parent(p)).kind = "dir"
       /\ Entry(tree, p).kind = "link" => Exists(tree, Entry(tree, p).target)

\* path.is_file()
IsFile(tree, p) == Exists(tree, p) /\ Node(tree, p).kind = "file"

\* path.is_dir()
IsDir(tree, p) == Exists(tree, p) /\ Node(tree, p).kind = "dir"

\* Path(p).mkdir(parents=True, exist_ok=True): the tree afterwards, or the
\* exception
RECURSIVE Mkdir(_, _)
Mkdir(tree, p) ==
    IF IsDir(tree, p) THEN [ok |-> TRUE, tree |-> tree]
    ELSE IF Exists(tree, p) \/ Entry(tree, p).kind = "link"
    THEN [ok |-> FALSE,
          exc |-> Foreign("FileExistsError", "[Errno 17] File exists: '" \o p \o "'")]
    ELSE IF IsDir(tree, Parent(p))
    THEN [ok |-> TRUE, tree |-> [tree EXCEPT ![p] = Directory]]
    ELSE IF Exists(tree, Parent(p))
    THEN [ok |-> FALSE,
          exc |-> Foreign("NotADirectoryError",
                          "[Errno 20] Not a directory: '" \o p \o "'")]
    ELSE LET up == Mkdir(tree, Parent(p))
         IN IF up.ok THEN [ok |-> TRUE, tree |-> [up.tree EXCEPT ![p] = Directory]]
            ELSE up

(***************************************************************************)
(* tools/file_ops.py: read_file and write_file                             *)
(***************************************************************************)
\* ReadFileExcept with the blanket clause only: every exception is wrapped
ReadFileExceptBlanket(e) ==
    IF Catches("Exception", e)
    THEN MacroManError("Failed to read file: " \o Str(e))
    ELSE e

\* the except clauses of read_file
ReadFileExcept(e) ==
    IF \/ Catches("ValidationError", e)
       \/ Catches("FileNotFoundError", e)
       \/ Catches("PermissionError", e)
    THEN e
    ELSE IF Catches("Exception", e)
    THEN MacroManError("Failed to read file: " \o Str(e))
    ELSE e

\* read_file(file_path) on a file system that holds tree: what the caller gets
read_file(tree, file_path) ==
    IF ~Exists(tree, file_path)
    THEN Raised(ReadFileExcept(
             ValidationError("File does not exist: " \o file_path, "file_path")))
    ELSE IF ~IsFile(tree, file_path)
    THEN Raised(ReadFileExcept(
             ValidationError("Path is not a file: " \o file_path, "file_path")))
    ELSE LET decoded == Utf8Decode(Node(tree, file_path).bytes)
         IN IF decoded.ok THEN Returned(UniversalNewlines(decoded.text))
            ELSE Raised(ReadFileExcept(decoded.exc))

\* the except clauses of write_file, had they been one blanket clause
WriteFileExceptBlanket(e) ==
    IF Catches("Exception", e)
    THEN MacroManError("Failed to write file: " \o Str(e))
    ELSE e

\* the except clauses of write_file
WriteFileExcept(e) ==
    IF \/ Catches("ValidationError", e)
       \/ Catches("PermissionError", e)
       \/ Catches("OSError", e)
    THEN e
    ELSE IF Catches("Exception", e)
    THEN MacroManError("Failed to write file: " \o Str(e))
    ELSE e

\* write_file(file_path, content, overwrite) on a file system that holds tree,
\* where os.linesep is sep: what the caller gets and the tree afterwards
write_file(tree, sep, file_path, content, overwrite) ==
    IF Exists(tree, file_path) /\ ~overwrite
    THEN [outcome |-> Raised(WriteFileExcept(ValidationError(
                         "File already exists: " \o file_path
                             \o ". Use overwrite=True to replace it.", "file_path"))),
          tree |-> tree]
    ELSE LET made == Mkdir(tree, Parent(file_path)) IN
         IF ~made.ok
         THEN [outcome |-> Raised(WriteFileExcept(made.exc)), tree |-> tree]
         ELSE IF IsDir(made.tree, file_path)
         THEN [outcome |-> Raised(WriteFileExcept(Foreign("IsADirectoryError",
                               "[Errno 21] Is a directory: '" \o file_path \o "'"))),
               tree |-> made.tree]
         ELSE IF ~IsDir(made.tree, Parent(Resolve(made.tree, file_path)))
         THEN [outcome |-> Raised(WriteFileExcept(Foreign("FileNotFoundError",
                               "[Errno 2] No such file or directory: '"
                                   \o file_path \o "'"))),
               tree |-> made.tree]
         ELSE LET at == Resolve(made.tree, file_path)
                  opened == [made.tree EXCEPT ![at] = RegularFile(<<>>)]
                  encoded == Utf8Encode(WriteTranslate(content, sep))
              IN IF ~encoded.ok
                 THEN [outcome |-> Raised(WriteFileExcept(encoded.exc)),
                       tree |-> opened]
                 ELSE LET written ==
                              [opened EXCEPT ![at] = RegularFile(encoded.bytes)]
                      IN [outcome |-> Returned(
                              [success |-> TRUE,
                               file_path |-> Absolute(file_path),
                               size |-> Len(content),
                               overwritten |-> (Exists(written, file_path) /\ overwrite)]),
                          tree |-> written]

\* the whole of write_file: the handler does not wait for anything
WriteFile(file_path, content, overwrite) ==
    /\ Accepting
    /\ call' = [tool |-> "write_file", file_path |-> file_path,
                content |-> content, overwrite |-> overwrite]
    /\ LET done == write_file(fs, linesep, file_path, content, overwrite) IN
         /\ fs' = done.tree
         /\ result' = done.outcome
         /\ lastWrite' =
              IF done.outcome.status = "returned"
              THEN [path |-> file_path, content |-> content]
              ELSE IF lastWrite.path = file_path THEN NoWrite ELSE lastWrite
    /\ pc' = "done"
    /\ UNCHANGED <<frame, procs, http, received, environ, settings, linesep, threads,
                   constructed, server>>

\* the whole of read_file
ReadFile(file_path) ==
    /\ Accepting
    /\ call' = [tool |-> "read_file", file_path |-> file_path]
    /\ result' = read_file(fs, file_path)
    /\ pc' = "done"
    /\ UNCHANGED <<frame, procs, http, received, environ, settings, fs, linesep,
                   lastWrite, threads, constructed, server>>

(***************************************************************************)
(* tools/file_ops.py: write_file called from several threads               *)
(*                                                                         *)
(* The runtime may run handlers in parallel.  write_file holds no lock, so *)
(* the calls of two threads interleave at every call of the file system:   *)
(* path.exists(), mkdir, open, the write that reaches the file when the    *)
(* file object is closed, and the path.exists() of the result.             *)
(***************************************************************************)
\* the path the threads write to
WriterPath == "out/log.txt"

\* thread t is in write_file, at the given position
Writing(t, at) == threads[t] # NotCalling /\ threads[t].at = at

\* what the file holds after bytes are written at offset 0 over old, the file
\* having been opened without O_APPEND
Overlay(old, bytes) == bytes \o SubSeq(old, Len(bytes) + 1, Len(old))

\* thread t calls write_file(WriterPath, content, overwrite)
WriteFileCall(t, content, overwrite) ==
    /\ threads[t] = NotCalling
    /\ threads' = [threads EXCEPT ![t] =
           [at |-> "check", content |-> content, overwrite |-> overwrite,
            outcome |-> Pending]]
    /\ UNCHANGED <<pc, call, frame, result, procs, http, received, environ, settings,
                   fs, linesep, lastWrite, constructed, server>>

\* "if path.exists() and not overwrite: raise ValidationError(...)", and the
\* except clause that re-raises it
WriteFileCheck(t) ==
    /\ Writing(t, "check")
    /\ threads' = [threads EXCEPT ![t] =
           IF Exists(fs, WriterPath) /\ ~threads[t].overwrite
           THEN [@ EXCEPT !.at = "done",
                          !.outcome = Raised(WriteFileExcept(ValidationError(
                              "File already exists: " \o WriterPath
                                  \o ". Use overwrite=True to replace it.",
                              "file_path")))]
           ELSE [@ EXCEPT !.at = "mkdir"]]
    /\ UNCHANGED <<pc, call, frame, result, procs, http, received, environ, settings,
                   fs, linesep, lastWrite, constructed, server>>

\* path.parent.mkdir(parents=True, exist_ok=True)
WriteFileMkdir(t) ==
    /\ Writing(t, "mkdir")
    /\ LET made == Mkdir(fs, Parent(WriterPath)) IN
         IF made.ok
         THEN /\ fs' = made.tree
              /\ threads' = [threads EXCEPT ![t].at = "open"]
         ELSE /\ fs' = fs
              /\ threads' = [threads EXCEPT
                     ![t].at = "done",
                     ![t].outcome = Raised(WriteFileExcept(made.exc))]
    /\ UNCHANGED <<pc, call, frame, result, procs, http, received, environ, settings,
                   linesep, lastWrite, constructed, server>>

\* open(path, "w", encoding="utf-8"): the file is created, or emptied when
\* it is there; the path is never a directory here
WriteFileOpen(t) ==
    /\ Writing(t, "open")
    /\ fs' = [fs EXCEPT ![Resolve(fs, WriterPath)] = RegularFile(<<>>)]
    /\ threads' = [threads EXCEPT ![t].at = "write"]
    /\ UNCHANGED <<pc, call, frame, result, procs, http, received, environ, settings,
                   linesep, lastWrite, constructed, server>>

\* f.write(content) and the end of the with statement: the encoded text
\* reaches the file at the offset of this thread's file object, which is 0
WriteFileWrite(t) ==
    /\ Writing(t, "write")
    /\ LET encoded == Utf8Encode(WriteTranslate(threads[t].content, linesep))
           at == Resolve(fs, WriterPath)
       IN IF encoded.ok
          THEN /\ fs' = [fs EXCEPT ![at] =
                            RegularFile(Overlay(fs[at].bytes, encoded.bytes))]
               /\ threads' = [threads EXCEPT ![t].at = "result"]
          ELSE /\ fs' = fs
               /\ threads' = [threads EXCEPT
                      ![t].at = "done",
                      ![t].outcome = Raised(WriteFileExcept(encoded.exc))]
    /\ UNCHANGED <<pc, call, frame, result, procs, http, received, environ, settings,
                   linesep, lastWrite, constructed, server>>

\* the result dict and the return
WriteFileResult(t) ==
    /\ Writing(t, "result")
    /\ threads' = [threads EXCEPT
           ![t].at = "done",
           ![t].outcome = Returned(
               [success |-> TRUE,
                file_path |-> Absolute(WriterPath),
                size |-> Len(threads[t].content),
                overwritten |-> (Exists(fs, WriterPath) /\ threads[t].overwrite)])]
    /\ UNCHANGED <<pc, call, frame, result, procs, http, received, environ, settings,
                   fs, linesep, lastWrite, constructed, server>>

(***************************************************************************)
(* tools/file_ops.py: list_directory                                       *)
(***************************************************************************)
\* the characters the file names of the model are made of, in code point order
NameChars == "-.0123456789ABCDEFGHIJKLMNOPQRSTUVWXYZ_abcdefghijklmnopqrstuvwxyz"

\* the place of ch in NameChars: ord(ch) up to an increasing map
Ord(ch) == CHOOSE i \in 1..Len(NameChars) : SubSeq(NameChars, i, i) = ch

\* a < b of two str: code point by code point, a proper prefix first
RECURSIVE StrLess(_, _)
StrLess(a, b) ==
    IF b = "" THEN FALSE
    ELSE IF a = "" THEN TRUE
    ELSE IF Head(a) = Head(b) THEN StrLess(Tail(a), Tail(b))
    ELSE Ord(Head(a)) < Ord(Head(b))

\* path.name: the last component of a path
RECURSIVE Name(_)
Name(p) ==
    IF p = "" \/ SubSeq(p, Len(p), Len(p)) = "/" THEN ""
    ELSE Name(SubSeq(p, 1, Len(p) - 1)) \o SubSeq(p, Len(p), Len(p))

\* str(Path(directory_path) / name)
Join(directory_path, name) ==
    IF directory_path = "." THEN name ELSE directory_path \o "/" \o name

\* the entries of the directory dir
Children(tree, dir) ==
    {p \in DOMAIN tree : Parent(p) = dir /\ tree[p].kind # "absent"}

\* the orders in which path.iterdir() can yield the entries of a directory:
\* the order is the file system's, any one is possible
IterDirOrders(tree, directory_path) ==
    LET entries == Children(tree, Resolve(tree, directory_path))
    IN {order \in [1..Cardinality(entries) -> entries] :
            \A i, j \in 1..Cardinality(entries) : order[i] = order[j] => i = j}

\* the loop of list_directory over the entries that are left, items being
\* the dictionaries appended so far; the key modified (st_mtime) is left out
\* of the dictionaries, the file system of the model keeps no clock, but the
\* item.stat() that computes it is made and fails on a link to nothing
RECURSIVE ListItems(_, _, _, _, _)
ListItems(tree, directory_path, include_hidden, order, items) ==
    IF order = <<>> THEN [ok |-> TRUE, items |-> items]
    ELSE LET item == Head(order)
             name == Name(item)
         IN IF ~include_hidden /\ Head(name) = "."
            THEN ListItems(tree, directory_path, include_hidden, Tail(order), items)
            ELSE IF ~Exists(tree, item)
            THEN [ok |-> FALSE,
                  exc |-> Foreign("FileNotFoundError",
                              "[Errno 2] No such file or directory: '"
                                  \o Join(directory_path, name) \o "'")]
            ELSE ListItems(tree, directory_path, include_hidden, Tail(order),
                     Append(items,
                         [name |-> name,
                          path |-> Join(directory_path, name),
                          is_file |-> IsFile(tree, item),
                          is_directory |-> IsDir(tree, item),
                          size |-> IF IsFile(tree, item)
                                   THEN PyInt(Len(Node(tree, item).bytes))
                                   ELSE PyNone]))

\* sorted places x after the items whose name is not greater: list.sort is stable
RECURSIVE InsertByName(_, _)
InsertByName(sorted, x) ==
    IF sorted = <<>> THEN <<x>>
    ELSE IF StrLess(x.name, Head(sorted).name) THEN <<x>> \o sorted
    ELSE <<Head(sorted)>> \o InsertByName(Tail(sorted), x)

\* items.sort(key=lambda x: str(x["name"]))
RECURSIVE SortByName(_)
SortByName(items) ==
    IF items = <<>> THEN <<>>
    ELSE InsertByName(SortByName(SubSeq(items, 1, Len(items) - 1)), items[Len(items)])

\* the except clauses of list_directory
ListDirectoryExcept(e) ==
    IF \/ Catches("ValidationError", e)
       \/ Catches("PermissionError", e)
       \/ Catches("OSError", e)
    THEN e
    ELSE IF Catches("Exception", e)
    THEN MacroManError("Failed to list directory: " \o Str(e))
    ELSE e

\* list_directory(directory_path, include_hidden) on a file system that holds
\* tree and yields the entries in the given order: what the caller gets
list_directory(tree, directory_path, include_hidden, order) ==
    IF ~Exists(tree, directory_path)
    THEN Raised(ListDirectoryExcept(ValidationError(
             "Directory does not exist: " \o directory_path, "directory_path")))
    ELSE IF ~IsDir(tree, directory_path)
    THEN Raised(ListDirectoryExcept(ValidationError(
             "Path is not a directory: " \o directory_path, "directory_path")))
    ELSE LET listed == ListItems(tree, directory_path, include_hidden, order, <<>>)
         IN IF listed.ok THEN Returned(SortByName(listed.items))
            ELSE Raised(ListDirectoryExcept(listed.exc))

\* the whole of list_directory
ListDirectory(directory_path, include_hidden, order) ==
    /\ Accepting
    /\ call' = [tool |-> "list_directory", directory_path |-> directory_path,
                include_hidden |-> include_hidden]
    /\ result' = list_directory(fs, directory_path, include_hidden, order)
    /\ pc' = "done"
    /\ UNCHANGED <<frame, procs, http, received, environ, settings, fs, linesep,
                   lastWrite, threads, constructed, server>>

(***************************************************************************)
(* The json module, as read_json_file and write_json_file use it           *)
(*                                                                         *)
(* A JSON text is a tuple of code points, like every text a file tool      *)
(* handles.  The Python values json.loads builds and json.dumps takes are   *)
(* PyNone, PyBool, PyInt, PyFloat, PyText, PyList and PyDict; a dict is the *)
(* tuple of its <<key, value>> pairs in insertion order, its keys texts.    *)
(***************************************************************************)
\* a str given by its code points
PyText(text) == [t |-> "str", text |-> text]

\* a float, given by the literal json.loads read it from
PyFloat(literal) == [t |-> "float", literal |-> literal]

PyDict(items) == [t |-> "dict", items |-> items]

\* the code point of the hexadecimal digit d, in lower case
HexCode(d) == IF d < 10 THEN 48 + d ELSE 87 + d

RECURSIVE NatText(_)
NatText(n) ==
    IF n < 10 THEN <<48 + n>> ELSE Append(NatText(n \div 10), 48 + (n % 10))

\* str(n) of an int, as a text
IntText(n) == IF n < 0 THEN <<45>> \o NatText(0 - n) ELSE NatText(n)

\* EscapeChar, had ESCAPE_DCT held the quote and the backslash only
EscapeCharQuoteOnly(c) ==
    CASE c = 34 -> <<92, 34>>
      [] c = 92 -> <<92, 92>>
      [] OTHER -> <<c>>

\* what ESCAPE_DCT of json.encoder puts for one character of a string when
\* ensure_ascii is false: only the quote, the backslash and the control
\* characters are escaped
EscapeChar(c) ==
    CASE c = 34 -> <<92, 34>>
      [] c = 92 -> <<92, 92>>
      [] c = 10 -> <<92, 110>>
      [] c = 13 -> <<92, 114>>
      [] c = 9 -> <<92, 116>>
      [] c = 8 -> <<92, 98>>
      [] c = 12 -> <<92, 102>>
      [] c < 32 /\ c \notin {8, 9, 10, 12, 13} ->
            <<92, 117, 48, 48, HexCode(c \div 16), HexCode(c % 16)>>
      [] OTHER -> <<c>>

RECURSIVE EscapeAll(_)
EscapeAll(text) ==
    IF text = <<>> THEN <<>> ELSE EscapeChar(Head(text)) \o EscapeAll(Tail(text))

\* json.encoder.encode_basestring
encode_basestring(text) == <<34>> \o EscapeAll(text) \o <<34>>

\* "\n" + " " * (indent * level)
NewlineIndent(indent, level) == <<10>> \o [i \in 1..(indent * level) |-> 32]

\* json.dumps(o, indent=indent, ensure_ascii=False) for a value at nesting
\* depth level, indent an int: items are separated by "," and a new line, a key
\* from its value by ": "
RECURSIVE Iterencode(_, _, _)
RECURSIVE IterencodeItems(_, _, _, _)
IterencodeItems(items, isDict, indent, level) ==
    IF items = <<>> THEN <<>>
    ELSE (IF isDict
          THEN encode_basestring(Head(items)[1]) \o <<58, 32>>
                   \o Iterencode(Head(items)[2], indent, level)
          ELSE Iterencode(Head(items), indent, level))
         \o (IF Len(items) > 1
             THEN <<44>> \o NewlineIndent(indent, level)
                      \o IterencodeItems(Tail(items), isDict, indent, level)
             ELSE <<>>)

Iterencode(o, indent, level) ==
    CASE o.t = "str" -> encode_basestring(o.text)
      [] o.t = "none" -> <<110, 117, 108, 108>>
      [] o.t = "bool" -> IF o.b THEN <<116, 114, 117, 101>>
                          ELSE <<102, 97, 108, 115, 101>>
      [] o.t = "int" -> IntText(o.n)
      [] o.t = "list" ->
            IF o.l = <<>> THEN <<91, 93>>
            ELSE <<91>> \o NewlineIndent(indent, level + 1)
                     \o IterencodeItems(o.l, FALSE, indent, level + 1)
                     \o NewlineIndent(indent, level) \o <<93>>
      [] o.t = "dict" ->
            IF o.items = <<>> THEN <<123, 125>>
            ELSE <<123>> \o NewlineIndent(indent, level + 1)
                     \o IterencodeItems(o.items, TRUE, indent, level + 1)
                     \o NewlineIndent(indent, level) \o <<125>>

\* json.dumps(data, indent=indent, ensure_ascii=False)
json_dumps(data, indent) == Iterencode(data, indent, 0)

\* the character at index i of text s, or -1 past its end
At(s, i) == IF i >= 1 /\ i <= Len(s) THEN s[i] ELSE -1

\* the index of the first character of s at or after index i that is not
\* JSON white space
RECURSIVE SkipWhitespace(_, _)
SkipWhitespace(s, i) ==
    IF At(s, i) \in {32, 9, 10, 13} THEN SkipWhitespace(s, i + 1) ELSE i

\* the scanner gives up at index i of the text (Python counts positions from 0)
ScanError(msg, i) == [ok |-> FALSE, msg |-> msg, pos |-> i - 1]

Scanned(value, next) == [ok |-> TRUE, value |-> value, next |-> next]

IsDigit(c) == c \in 48..57

IsHexDigit(c) == c \in 48..57 \/ c \in 65..70 \/ c \in 97..102

HexValue(c) == IF c <= 57 THEN c - 48 ELSE IF c <= 70 THEN c - 55 ELSE c - 87

\* the number the four hexadecimal digits at indexes i .. i+3 of s write
Hex4Value(s, i) ==
    HexValue(s[i]) * 4096 + HexValue(s[i + 1]) * 256 + HexValue(s[i + 2]) * 16
        + HexValue(s[i + 3])

\* are there four hexadecimal digits at indexes i .. i+3 of s
Hex4At(s, i) == \A k \in i..(i + 3) : IsHexDigit(At(s, k))

\* what a backslash followed by c stands for, or -1
Unescape(c) ==
    CASE c = 34 -> 34
      [] c = 92 -> 92
      [] c = 47 -> 47
      [] c = 98 -> 8
      [] c = 102 -> 12
      [] c = 110 -> 10
      [] c = 114 -> 13
      [] c = 116 -> 9
      [] OTHER -> -1

\* json.decoder.scanstring, strict: the string whose opening quote is at index
\* begin, read from index i on, text being what has been read so far; the
\* scanner wants a character after the four digits of a \u escape
RECURSIVE ScanString(_, _, _, _)
ScanString(s, begin, i, text) ==
    LET c == At(s, i) IN
    IF c = -1 THEN ScanError("Unterminated string starting at", begin)
    ELSE IF c = 34 THEN Scanned(PyText(text), i + 1)
    ELSE IF c < 32 THEN ScanError("Invalid control character at", i)
    ELSE IF c # 92 THEN ScanString(s, begin, i + 1, Append(text, c))
    ELSE IF At(s, i + 1) = -1
    THEN ScanError("Unterminated string starting at", begin)
    ELSE IF At(s, i + 1) # 117
    THEN IF Unescape(At(s, i + 1)) = -1 THEN ScanError("Invalid \\escape", i)
         ELSE ScanString(s, begin, i + 2, Append(text, Unescape(At(s, i + 1))))
    ELSE IF i + 6 > Len(s) \/ ~Hex4At(s, i + 2)
    THEN ScanError("Invalid \\uXXXX escape", i + 1)
    ELSE LET u == Hex4Value(s, i + 2)
             end == i + 6
         IN IF /\ u \in 55296..56319
               /\ end + 6 <= Len(s)
               /\ At(s, end) = 92
               /\ At(s, end + 1) = 117
            THEN IF ~Hex4At(s, end + 2)
                 THEN ScanError("Invalid \\uXXXX escape", end + 1)
                 ELSE LET low == Hex4Value(s, end + 2)
                      IN IF low \in 56320..57343
                         THEN ScanString(s, begin, end + 6,
                                  Append(text, 65536 + (u - 55296) * 1024
                                                   + (low - 56320)))
                         ELSE ScanString(s, begin, end, Append(text, u))
            ELSE ScanString(s, begin, end, Append(text, u))

\* the index after the digits that start at index i of s
RECURSIVE DigitsEnd(_, _)
DigitsEnd(s, i) == IF IsDigit(At(s, i)) THEN DigitsEnd(s, i + 1) ELSE i

RECURSIVE NatValue(_)
NatValue(digits) ==
    IF digits = <<>> THEN 0
    ELSE NatValue(SubSeq(digits, 1, Len(digits) - 1)) * 10
             + (digits[Len(digits)] - 48)

\* does the text word stand at index i of s
WordAt(s, i, word) ==
    /\ i + Len(word) - 1 <= Len(s)
    /\ SubSeq(s, i, i + Len(word) - 1) = word

\* the number at index i of s: an int, or a float when a fraction or an
\* exponent follows; a lone "-" or a sign before anything but a digit is
\* no value
ScanNumber(s, i) ==
    LET first == IF At(s, i) = 45 THEN i + 1 ELSE i
        intEnd == IF At(s, first) = 48 THEN first + 1 ELSE DigitsEnd(s, first)
        fracEnd == IF At(s, intEnd) = 46 /\ IsDigit(At(s, intEnd + 1))
                   THEN DigitsEnd(s, intEnd + 1)
                   ELSE intEnd
        signEnd == IF At(s, fracEnd + 1) \in {43, 45} THEN fracEnd + 2 ELSE fracEnd + 1
        expEnd == IF At(s, fracEnd) \in {69, 101} /\ IsDigit(At(s, signEnd))
                  THEN DigitsEnd(s, signEnd)
                  ELSE fracEnd
    IN IF ~IsDigit(At(s, first)) THEN ScanError("Expecting value", i)
       ELSE IF expEnd > intEnd
       THEN Scanned(PyFloat(SubSeq(s, i, expEnd - 1)), expEnd)
       ELSE Scanned(PyInt(IF first > i
                          THEN 0 - NatValue(SubSeq(s, first, intEnd - 1))
                          ELSE NatValue(SubSeq(s, first, intEnd - 1))), intEnd)

\* dict[key] = value on the pairs of a dict
RECURSIVE SetItem(_, _, _)
SetItem(items, key, value) ==
    IF items = <<>> THEN <<<<key, value>>>>
    ELSE IF Head(items)[1] = key THEN <<<<key, value>>>> \o Tail(items)
    ELSE <<Head(items)>> \o SetItem(Tail(items), key, value)

\* scan_once of json.scanner: the value that starts at index i of s
RECURSIVE ScanOnce(_, _)
RECURSIVE ScanArrayItems(_, _, _)
RECURSIVE ScanObjectItems(_, _, _)

\* JSONArray from the item expected at index i, l being the items so far
ScanArrayItems(s, i, l) ==
    LET item == ScanOnce(s, i) IN
    IF ~item.ok THEN item
    ELSE LET after == SkipWhitespace(s, item.next) IN
         IF At(s, after) = 93 THEN Scanned(PyList(Append(l, item.value)), after + 1)
         ELSE IF At(s, after) # 44 THEN ScanError("Expecting ',' delimiter", after)
         ELSE ScanArrayItems(s, SkipWhitespace(s, after + 1), Append(l, item.value))

\* JSONObject from the key expected at index i, items being the pairs so far
ScanObjectItems(s, i, items) ==
    IF At(s, i) # 34
    THEN ScanError("Expecting property name enclosed in double quotes", i)
    ELSE LET key == ScanString(s, i, i + 1, <<>>) IN
         IF ~key.ok THEN key
         ELSE LET colon == SkipWhitespace(s, key.next) IN
              IF At(s, colon) # 58 THEN ScanError("Expecting ':' delimiter", colon)
              ELSE LET value == ScanOnce(s, SkipWhitespace(s, colon + 1)) IN
                   IF ~value.ok THEN value
                   ELSE LET after == SkipWhitespace(s, value.next)
                            pairs == SetItem(items, key.value.text, value.value)
                        IN IF At(s, after) = 125 THEN Scanned(PyDict(pairs), after + 1)
                           ELSE IF At(s, after) # 44
                           THEN ScanError("Expecting ',' delimiter", after)
                           ELSE ScanObjectItems(s, SkipWhitespace(s, after + 1), pairs)

ScanOnce(s, i) ==
    LET c == At(s, i) IN
    CASE c = 34 -> ScanString(s, i, i + 1, <<>>)
      [] c = 123 ->
            IF At(s, SkipWhitespace(s, i + 1)) = 125
            THEN Scanned(PyDict(<<>>), SkipWhitespace(s, i + 1) + 1)
            ELSE ScanObjectItems(s, SkipWhitespace(s, i + 1), <<>>)
      [] c = 91 ->
            IF At(s, SkipWhitespace(s, i + 1)) = 93
            THEN Scanned(PyList(<<>>), SkipWhitespace(s, i + 1) + 1)
            ELSE ScanArrayItems(s, SkipWhitespace(s, i + 1), <<>>)
      [] c = 110 /\ WordAt(s, i, <<110, 117, 108, 108>>) -> Scanned(PyNone, i + 4)
      [] c = 116 /\ WordAt(s, i, <<116, 114, 117, 101>>) ->
            Scanned(PyBool(TRUE), i + 4)
      [] c = 102 /\ WordAt(s, i, <<102, 97, 108, 115, 101>>) ->
            Scanned(PyBool(FALSE), i + 5)
      [] c = 78 /\ WordAt(s, i, <<78, 97, 78>>) ->
            Scanned(PyFloat(<<78, 97, 78>>), i + 3)
      [] c = 73 /\ WordAt(s, i, <<73, 110, 102, 105, 110, 105, 116, 121>>) ->
            Scanned(PyFloat(SubSeq(s, i, i + 7)), i + 8)
      [] c = 45 /\ WordAt(s, i, <<45, 73, 110, 102, 105, 110, 105, 116, 121>>) ->
            Scanned(PyFloat(SubSeq(s, i, i + 8)), i + 9)
      [] (c = 45 /\ ~WordAt(s, i, <<45, 73, 110, 102, 105, 110, 105, 116, 121>>))
             \/ IsDigit(c) -> ScanNumber(s, i)
      [] OTHER -> ScanError("Expecting value", i)

\* the number of "\n" among the first n characters of s
RECURSIVE CountNewlines(_, _)
CountNewlines(s, n) ==
    IF n = 0 THEN 0
    ELSE CountNewlines(s, n - 1) + (IF s[n] = 10 THEN 1 ELSE 0)

\* the index of the last "\n" among the first n characters of s, or 0
RECURSIVE LastNewline(_, _)
LastNewline(s, n) ==
    IF n = 0 THEN 0 ELSE IF s[n] = 10 THEN n ELSE LastNewline(s, n - 1)

\* json.JSONDecodeError(msg, doc, pos)
JSONDecodeError(msg, doc, pos) ==
    Foreign("JSONDecodeError",
        msg \o ": line " \o NatStr(CountNewlines(doc, pos) + 1)
            \o " column " \o NatStr(pos + 1 - LastNewline(doc, pos))
            \o " (char " \o NatStr(pos) \o ")")

\* json.loads(s) of a str: the value, or the exception
json_loads(s) ==
    IF At(s, 1) = 65279
    THEN [ok |-> FALSE,
          exc |-> JSONDecodeError("Unexpected UTF-8 BOM (decode using utf-8-sig)", s, 0)]
    ELSE LET obj == ScanOnce(s, SkipWhitespace(s, 1)) IN
         IF ~obj.ok THEN [ok |-> FALSE, exc |-> JSONDecodeError(obj.msg, s, obj.pos)]
         ELSE LET end == SkipWhitespace(s, obj.next) IN
              IF end <= Len(s)
              THEN [ok |-> FALSE, exc |-> JSONDecodeError("Extra data", s, end - 1)]
              ELSE [ok |-> TRUE, value |-> obj.value]

(***************************************************************************)
(* tools/file_ops.py: read_json_file and write_json_file                   *)
(***************************************************************************)
\* ReadJsonFileExcept with a clause that re-raises ValidationError first, as
\* the except clauses of write_json_file do
ReadJsonFileExceptReraises(e) ==
    IF Catches("ValidationError", e) THEN e
    ELSE IF Catches("JSONDecodeError", e)
    THEN ValidationError("Invalid JSON in file: " \o Str(e), "file_path")
    ELSE IF Catches("Exception", e)
    THEN MacroManError("Failed to read JSON file: " \o Str(e))
    ELSE e

\* ReadJsonFileExcept with the blanket clause only
ReadJsonFileExceptBlanket(e) ==
    IF Catches("Exception", e)
    THEN MacroManError("Failed to read JSON file: " \o Str(e))
    ELSE e

\* the except clauses of read_json_file
ReadJsonFileExcept(e) ==
    IF Catches("JSONDecodeError", e)
    THEN ValidationError("Invalid JSON in file: " \o Str(e), "file_path")
    ELSE IF Catches("Exception", e)
    THEN MacroManError("Failed to read JSON file: " \o Str(e))
    ELSE e

\* read_json_file(file_path) on a file system that holds tree: what the
\* caller gets
read_json_file(tree, file_path) ==
    LET content == read_file(tree, file_path) IN
    IF content.status = "raised" THEN Raised(ReadJsonFileExcept(content.exc))
    ELSE LET data == json_loads(content.value) IN
         IF data.ok THEN Returned(data.value)
         ELSE Raised(ReadJsonFileExcept(data.exc))

\* the except clauses of write_json_file
WriteJsonFileExcept(e) ==
    IF \/ Catches("ValidationError", e)
       \/ Catches("PermissionError", e)
       \/ Catches("OSError", e)
    THEN e
    ELSE IF Catches("Exception", e)
    THEN MacroManError("Failed to write JSON file: " \o Str(e))
    ELSE e

\* write_json_file(file_path, data, indent, overwrite) on a file system that
\* holds tree, where os.linesep is sep: what the caller gets and the tree
\* afterwards
write_json_file(tree, sep, file_path, data, indent, overwrite) ==
    LET content == json_dumps(data, indent)
        done == write_file(tree, sep, file_path, content, overwrite)
    IN IF done.outcome.status = "raised"
       THEN [outcome |-> Raised(WriteJsonFileExcept(done.outcome.exc)),
             tree |-> done.tree]
       ELSE done

\* the whole of write_json_file
WriteJsonFile(file_path, data, indent, overwrite) ==
    /\ Accepting
    /\ call' = [tool |-> "write_json_file", file_path |-> file_path, data |-> data,
                indent |-> indent, overwrite |-> overwrite]
    /\ LET done == write_json_file(fs, linesep, file_path, data, indent, overwrite) IN
         /\ fs' = done.tree
         /\ result' = done.outcome
         /\ lastWrite' =
              IF done.outcome.status = "returned"
              THEN [path |-> file_path, content |-> json_dumps(data, indent),
                    data |-> data]
              ELSE IF lastWrite.path = file_path THEN NoWrite ELSE lastWrite
    /\ pc' = "done"
    /\ UNCHANGED <<frame, procs, http, received, environ, settings, linesep, threads,
                   constructed, server>>

\* the whole of read_json_file
ReadJsonFile(file_path) ==
    /\ Accepting
    /\ call' = [tool |-> "read_json_file", file_path |-> file_path]
    /\ result' = read_json_file(fs, file_path)
    /\ pc' = "done"
    /\ UNCHANGED <<frame, procs, http, received, environ, settings, fs, linesep,
                   lastWrite, threads, constructed, server>>

(***************************************************************************)
(* tools/basic.py                                                          *)
(***************************************************************************)
\* the float n.0, for a whole number n
PyWhole(n) == [t |-> "float", whole |-> n]

\* type(v).__name__ of an operand
TypeName(v) == IF v.t = "none" THEN "NoneType" ELSE v.t

\* the number an int or float operand stands for
NumberOf(v) == IF v.t = "int" THEN v.n ELSE v.whole

UnsupportedOperand(op, a, b) ==
    Foreign("TypeError", "unsupported operand type(s) for " \o op \o ": '"
                         \o TypeName(a) \o "' and '" \o TypeName(b) \o "'")

\* a + b: [ok |-> TRUE, value] or [ok |-> FALSE, exc]
PyAdd(a, b) ==
    CASE a.t = "int" /\ b.t = "int" -> [ok |-> TRUE, value |-> PyInt(a.n + b.n)]
      [] a.t \in {"int", "float"} /\ b.t \in {"int", "float"} ->
            [ok |-> TRUE, value |-> PyWhole(NumberOf(a) + NumberOf(b))]
      [] a.t = "str" /\ b.t = "str" -> [ok |-> TRUE, value |-> PyStr(a.s \o b.s)]
      [] a.t = "str" ->
            [ok |-> FALSE,
             exc |-> Foreign("TypeError", "can only concatenate str (not \""
                                          \o TypeName(b) \o "\") to str")]
      [] OTHER -> [ok |-> FALSE, exc |-> UnsupportedOperand("+", a, b)]

RECURSIVE Repeat(_, _)
\* s * n of a str s and an int n
Repeat(s, n) == IF n <= 0 THEN "" ELSE s \o Repeat(s, n - 1)

\* a * b: [ok |-> TRUE, value] or [ok |-> FALSE, exc]
PyMul(a, b) ==
    CASE a.t = "int" /\ b.t = "int" -> [ok |-> TRUE, value |-> PyInt(a.n * b.n)]
      [] a.t \in {"int", "float"} /\ b.t \in {"int", "float"} ->
            [ok |-> TRUE, value |-> PyWhole(NumberOf(a) * NumberOf(b))]
      [] a.t = "str" /\ b.t = "int" -> [ok |-> TRUE, value |-> PyStr(Repeat(a.s, b.n))]
      [] a.t = "int" /\ b.t = "str" -> [ok |-> TRUE, value |-> PyStr(Repeat(b.s, a.n))]
      [] a.t = "str" ->
            [ok |-> FALSE,
             exc |-> Foreign("TypeError", "can't multiply sequence by non-int of type '"
                                          \o TypeName(b) \o "'")]
      [] b.t = "str" ->
            [ok |-> FALSE,
             exc |-> Foreign("TypeError", "can't multiply sequence by non-int of type '"
                                          \o TypeName(a) \o "'")]
      [] OTHER -> [ok |-> FALSE, exc |-> UnsupportedOperand("*", a, b)]

\* the except clause of add_numbers and of multiply_numbers: the
\* ValidationError is raised without a field
NumbersExcept(e, text) ==
    IF Catches("Exception", e)
    THEN ValidationError(text \o Str(e), None)
    ELSE e

\* add_numbers(a, b): what the caller gets
add_numbers(a, b) ==
    LET sum == PyAdd(a, b) IN
    IF sum.ok THEN Returned(sum.value)
    ELSE Raised(NumbersExcept(sum.exc, "Failed to add numbers: "))

\* multiply_numbers(a, b): what the caller gets
multiply_numbers(a, b) ==
    LET product == PyMul(a, b) IN
    IF product.ok THEN Returned(product.value)
    ELSE Raised(NumbersExcept(product.exc, "Failed to multiply numbers: "))

\* greet_user that puts the name into the greeting as it was passed
greet_user_untrimmed(name) ==
    IF name = None \/ name = "" \/ Strip(name) = ""
    THEN Raised(ValidationError("Name cannot be empty", "name"))
    ELSE Returned("Hello, " \o name \o "! Nice to meet you.")

\* greet_user(name): what the caller gets
greet_user(name) ==
    IF name = None \/ name = "" \/ Strip(name) = ""
    THEN Raised(ValidationError("Name cannot be empty", "name"))
    ELSE Returned("Hello, " \o Strip(name) \o "! Nice to meet you.")

\* echo_message(message): what the caller gets
echo_message(message) ==
    IF message = None \/ message = ""
    THEN Raised(ValidationError("Message cannot be empty", "message"))
    ELSE Returned("Echo: " \o message)

\* a tool that neither starts a process nor posts a request, from its call
\* to its end
ToolCall(invocation, outcome) ==
    /\ Accepting
    /\ call' = invocation
    /\ result' = outcome
    /\ pc' = "done"
    /\ UNCHANGED <<frame, procs, http, received, environ, settings, fs, linesep,
                   lastWrite, threads, constructed, server>>

AddNumbers(a, b) ==
    ToolCall([tool |-> "add_numbers", a |-> a, b |-> b], add_numbers(a, b))

MultiplyNumbers(a, b) ==
    ToolCall([tool |-> "multiply_numbers", a |-> a, b |-> b], multiply_numbers(a, b))

GreetUser(name) == ToolCall([tool |-> "greet_user", name |-> name], greet_user(name))

EchoMessage(message) ==
    ToolCall([tool |-> "echo_message", message |-> message], echo_message(message))

\* the tool elaborate_email_body of email.py
ElaborateEmailBody(brief_text, subject) ==
    LET elaborated == elaborate_email_body(brief_text, subject) IN
    ToolCall([tool |-> "elaborate_email_body", brief_text |-> brief_text,
              subject |-> subject],
             IF elaborated.ok THEN Returned(elaborated.value) ELSE Raised(elaborated.exc))

(***************************************************************************)
(* The functions registered with the server                                *)
(***************************************************************************)
\* json.dumps(value, indent=2): a JSON text, given by the value it encodes
JsonDocument(value) == [dumps |-> value, indent |-> 2]

\* the dict that the functions registered by email.py and calendar.py
\* return, as JSON, for an exception e of their tool
FailurePayload(e, message) == [success |-> FALSE, error |-> Str(e), message |-> message]

\* the try statement of _send_email, _schedule_meet and _list_events, given
\* the outcome of the tool
RegisteredJson(outcome, message) ==
    IF outcome.status = "returned" THEN Returned(JsonDocument(outcome.value))
    ELSE IF Catches("Exception", outcome.exc)
    THEN Returned(JsonDocument(FailurePayload(outcome.exc, message)))
    ELSE outcome

\* the message of the failure payload, for the tools registered with a try
\* statement
FailureMessages ==
    [send_email |-> "Failed to send email",
     schedule_meet |-> "Failed to schedule meeting",
     list_events |-> "Failed to list events"]

\* the try statement of _elaborate_email_body, given the outcome of the tool
RegisteredText(outcome) ==
    IF outcome.status = "raised" /\ Catches("Exception", outcome.exc)
    THEN Returned("Error elaborating email body: " \o Str(outcome.exc))
    ELSE outcome

\* a registration that returns the call of the tool, with no try statement
RegisteredWithoutTry(tool, outcome) == outcome

\* what the function registered for tool hands to the runtime of the
\* protocol, given the outcome of the tool: the functions of basic.py and
\* file_ops.py return the call of the tool, and the tools of system.py are
\* the registered functions themselves
Registered(tool, outcome) ==
    IF tool \in DOMAIN FailureMessages
    THEN RegisteredJson(outcome, FailureMessages[tool])
    ELSE IF tool = "elaborate_email_body"
    THEN RegisteredText(outcome)
    ELSE outcome

\* the names under which the register_* functions bind tools to the server
register_basic_tools ==
    {"_add_numbers", "_multiply_numbers", "_greet_user", "_get_system_info",
     "_echo_message"}
register_file_tools ==
    {"_read_file", "_write_file", "_list_directory", "_read_json_file",
     "_write_json_file"}
register_system_tools ==
    {"get_process_info", "get_system_stats", "execute_command",
     "get_environment_variables", "get_python_info"}
register_email_tools == {"_send_email", "_elaborate_email_body"}
register_calendar_tools == {"_schedule_meet", "_list_events"}

\* register_tools: every tool the server offers
register_tools ==
    register_basic_tools \cup register_file_tools \cup register_system_tools
        \cup register_email_tools \cup register_calendar_tools

(***************************************************************************)
(* core/server.py                                                          *)
(***************************************************************************)
\* logger.info(event) and logger.error(event, error=..., exc_info=True) of
\* core/server.py, as entries of the log
LogInfo(event) == [level |-> "info", event |-> event]
LogError(event, error) == [level |-> "error", event |-> event, error |-> error]

\* the text stands for an int, as the field server_port: int requires of
\* SERVER_PORT; the values of the model hold no sign and no white space
PortIsInt(text) == text # "" /\ AllIn(text, Digits)

\* create_mcp_server() where SERVER_PORT of the environment is port (None
\* when it is not set): Settings() of the first get_settings() validates the
\* environment and raises pydantic's ValidationError on a port that is not
\* an int; otherwise the server is created and the fact is logged
create_mcp_server(port) ==
    IF ~settings.cached /\ port # None /\ ~PortIsInt(port)
    THEN [ok |-> FALSE,
          exc |-> Foreign("PydanticValidationError",
                          "1 validation error for Settings")]
    ELSE [ok |-> TRUE, log |-> <<LogInfo("MCP server created")>>]

\* the except clauses of run_server that swallow every exception
RunServerExceptSwallows(out) ==
    IF out.status = "raised" /\ Catches("KeyboardInterrupt", out.exc)
    THEN [log |-> <<LogInfo("Server shutdown requested")>>, outcome |-> Returned(None)]
    ELSE IF out.status = "raised" /\ Catches("Exception", out.exc)
    THEN [log |-> <<LogError("Server error", Str(out.exc))>>,
          outcome |-> Returned(None)]
    ELSE [log |-> <<>>, outcome |-> out]

\* the except clauses of run_server on the outcome out of mcp.run: what they
\* log and what leaves the try statement
RunServerExcept(out) ==
    IF out.status = "raised" /\ Catches("KeyboardInterrupt", out.exc)
    THEN [log |-> <<LogInfo("Server shutdown requested")>>, outcome |-> Returned(None)]
    ELSE IF out.status = "raised" /\ Catches("Exception", out.exc)
    THEN [log |-> <<LogError("Server error", Str(out.exc))>>, outcome |-> out]
    ELSE [log |-> <<>>, outcome |-> out]

\* the finally clause of run_server
RunServerFinally == <<LogInfo("Server stopped")>>

\* run_server() up to and including the call of mcp.run, which blocks while
\* the transport serves requests
RunServer(port) ==
    /\ server.at = "init"
    /\ LET mcp == create_mcp_server(port) IN
         IF ~mcp.ok
         THEN /\ server' = [server EXCEPT !.at = "ended", !.outcome = Raised(mcp.exc)]
              /\ UNCHANGED <<settings, constructed>>
         ELSE /\ settings' = get_settings
              /\ constructed' = IF settings.cached THEN constructed ELSE constructed + 1
              /\ server' = [server EXCEPT
                     !.at = "running",
                     !.log = mcp.log \o <<LogInfo("Starting Macro-Man MCP Server...")>>]
    /\ UNCHANGED <<pc, call, frame, result, procs, http, received, environ, fs, linesep,
                   lastWrite, threads>>

\* run_server() from the end of mcp.run, which returned or raised, to its own
\* end
TransportEnds(out) ==
    /\ server.at = "running"
    /\ LET caught == RunServerExcept(out) IN
         server' = [at |-> "ended",
                    log |-> server.log \o caught.log \o RunServerFinally,
                    transport |-> out,
                    outcome |-> caught.outcome]
    /\ UNCHANGED <<pc, call, frame, result, procs, http, received, environ, settings, fs,
                   linesep, lastWrite, threads, constructed>>

\* the transport accepts an invocation while mcp.run is running
Serving == server.at = "running" /\ Accepting

(***************************************************************************)
(* Inputs of the system tools                                              *)
(***************************************************************************)
CmdPrefixes == {"", "  ", "echo x; "}
CmdCores ==
    {"", " ", "\t\n", "ls", "echo hi", "cat notes", "result",
     "rm -rf", "sudo", "su", "chmod 777", "dd if=", "mkfs",
     "RM -RF", "Sudo", "SU", "Chmod 777", "DD IF=", "MkFs",
     "rm  -rf", "rm -r", "chmod 755", "dd of="}
CmdSuffixes == {"", " /", ".ext4 /dev/sda"}
Commands == {p \o c \o s : p \in CmdPrefixes, c \in CmdCores, s \in CmdSuffixes}
Timeouts == {5, 30}

(***************************************************************************)
(* Inputs of the email and calendar tools, and what the backend can do     *)
(***************************************************************************)
\* values of EMAIL_SERVICE_URL in the environment of the process
Environs == {None, "http://mail.internal:8080"}

Tos == {None, "", "  ", "user@example.com", " User.Name+tag@mail-1.example.org\n",
        "bad-email", "a@b.c", "a b@example.com"}
Subjects == {"", "Hi", " Weekly report  "}
Bodies == {"", " \n", "Hello", "  please call me back \n",
           "Numbers for the third quarter are attached"}

Titles == {"", " Sync "}
Descriptions == {None, "  ", " Weekly sync "}
TimeZones == {None, " UTC "}
AttendeeLists ==
    {PyNone, PyList(<<>>), PyList(<<" user@example.com ">>),
     PyList(<<"user@example.com", "bad-email">>), PyList(<<"user@example.com", None>>),
     PyStr("user@example.com")}
SendUpdatesValues == {None, "all", "externalOnly", "ALL", ""}
MaxResultsValues ==
    {PyNone, PyInt(-1), PyInt(0), PyInt(1), PyInt(25), PyBool(TRUE), PyBool(FALSE),
     PyStr("5")}
Queries == {None, "  ", " standup "}

\* a few date-time arguments, well-formed and not
FewDateTimes ==
    {"", "2025-10-21T10:00:00Z", " 2025-10-21T10:30:00+05:30 ", "2025-10-21"}

\* date-time arguments assembled from well-formed and malformed parts
DatePart == {"2025-10-21", "2025-1-21", "20251021", "2025/10/21", "yyyy-10-21"}
SepPart == {"T", " ", "t"}
TimePart == {"10:00:00", "10:00", "10:00:00.5", "1O:00:00"}
ZonePart == {"Z", "z", "", "+05:30", "-08:00", "+0530", "+05:3", "Z+05:30"}
PadPart == {"", " ", "\n"}
AssembledDateTimes ==
    {l \o "2025-10-21T10:00:00" \o z \o r :
        l \in PadPart, z \in {"Z", "+05:30", "+0530"}, r \in PadPart}
    \cup {d \o "T10:00:00" \o z : d \in DatePart, z \in ZonePart}
    \cup {"2025-10-21" \o sp \o tm \o z :
             sp \in SepPart, tm \in TimePart, z \in ZonePart}
DateTimes == AssembledDateTimes \cup {None, "", " ", "\t\n", "now"}

\* status codes of the responses that are not 200
ErrorCodes == {404, 500}

OkBodies ==
    {[text |-> "{\"success\": true, \"messageId\": \"m1\"}",
      json |-> JObj([success |-> JBool(TRUE), messageId |-> JStr("m1")])],
     [text |-> "{\"success\": false, \"message\": \"rejected\"}",
      json |-> JObj([success |-> JBool(FALSE), message |-> JStr("rejected")])],
     [text |-> "{}", json |-> JObj(<<>>)],
     [text |-> "null", json |-> JNull],
     [text |-> "[]", json |-> JArr(<<>>)],
     [text |-> "OK", json |-> JInvalid]}

ErrorBodies ==
    {[text |-> "{\"message\": \"boom\"}", json |-> JObj([message |-> JStr("boom")])],
     [text |-> "{\"message\": null}", json |-> JObj([message |-> JNull])],
     [text |-> "{\"error\": \"bad\"}", json |-> JObj([error |-> JStr("bad")])],
     [text |-> "null", json |-> JNull],
     [text |-> "42", json |-> JNum(42)],
     [text |-> "\"down\"", json |-> JStr("down")],
     [text |-> "\"no message\"", json |-> JStr("no message")],
     [text |-> "[\"message\"]", json |-> JArr(<<JStr("message")>>)],
     [text |-> "<html>Bad Gateway</html>", json |-> JInvalid]}

Response(status_code, body) ==
    [kind |-> "response", status_code |-> status_code,
     text |-> body.text, json |-> body.json]

\* what httpx.post can do: return a response, or raise
HttpOutcomes ==
    {Response(200, b) : b \in OkBodies}
    \cup {Response(c, b) : c \in ErrorCodes, b \in ErrorBodies}
    \cup {[kind |-> "raise", exc |-> Foreign("ConnectTimeout", "timed out")],
          [kind |-> "raise", exc |-> Foreign("ReadTimeout", "The read operation timed out")],
          [kind |-> "raise", exc |-> Foreign("ConnectError", "[Errno 111] Connection refused")],
          [kind |-> "raise", exc |-> Foreign("ReadError", "[Errno 104] Connection reset by peer")],
          [kind |-> "raise", exc |-> Foreign("TooManyRedirects", "Exceeded maximum allowed redirects.")],
          [kind |-> "raise", exc |-> Foreign("InvalidURL", "Invalid port")]}

(***************************************************************************)
(* Inputs of the file tools                                                *)
(***************************************************************************)
FilePaths == TreePaths

\* "", "a\nb", "a\r\nb", "a\r", "\u00e9", "\u20ac\n", "\U0001f600" and a lone
\* surrogate "\ud800", which a JSON request can carry as an escape
FileContents ==
    {<<>>, <<97, LF, 98>>, <<97, CR, LF, 98>>, <<97, CR>>, <<233>>, <<8364, LF>>,
     <<128512>>, <<55296>>}

\* an empty working directory but for the directory data
EmptyTree == [p \in TreePaths |-> IF p = "data" THEN Directory ELSE Absent]

\* what the working directory can hold when the server starts: nothing; files
\* left by other programs, one of them with Windows line ends and one that is
\* not UTF-8
InitialTrees ==
    {EmptyTree,
     [EmptyTree EXCEPT !["notes.txt"] = RegularFile(<<111, 108, 100, CR, LF>>),
                       !["out"] = Directory,
                       !["out/log.txt"] = RegularFile(<<226, 130>>)]}

\* what the threads write: "aaaa", "bb", "c\n"
WriterContents == {<<97, 97, 97, 97>>, <<98, 98>>, <<99, LF>>}

(***************************************************************************)
(* Inputs of list_directory                                                *)
(***************************************************************************)
ListingPaths ==
    {"notes.txt", "data", "data/.env", "data/B.txt", "data/a", "data/link",
     "data/gone"}

\* a working directory with a file and a directory data that holds a hidden
\* file, a file and a directory
ListingTree ==
    [p \in ListingPaths |->
        CASE p = "notes.txt" -> RegularFile(<<104, 105, LF>>)
          [] p = "data" -> Directory
          [] p = "data/.env" -> RegularFile(<<75, 61, 49, LF>>)
          [] p = "data/B.txt" -> RegularFile(<<>>)
          [] p = "data/a" -> Directory
          [] OTHER -> Absent]

\* the same, and the same with a symbolic link data/link whose target
\* data/gone has been removed
InitialListings ==
    {ListingTree, [ListingTree EXCEPT !["data/link"] = SymLink("data/gone")]}

DirectoryPaths == {".", "data", "data/a", "data/B.txt", "data/gone"}

ListingWritePaths == {"data/.env", "data/link"}

ListingContents == {<<>>, <<104, 105>>}

(***************************************************************************)
(* Inputs of the JSON file tools                                           *)
(***************************************************************************)
JsonTreePaths == {"conf.json", "data"}

\* the JSON-compatible structures written: empty and nested containers,
\* every scalar, strings with a quote, a backslash, control characters, CR,
\* CR LF, characters outside ASCII and outside the basic plane, a key that
\* needs escaping, and a string with a lone surrogate
JsonData ==
    {PyDict(<<>>),
     PyDict(<<<<(<<110>>), PyInt(-5)>>,
              <<(<<233, 34>>), PyText(<<97, CR, LF, 8364, 92, 34, 1>>)>>>>),
     PyDict(<<<<(<<>>), PyList(<<PyDict(<<<<(<<107>>), PyInt(0)>>>>)>>)>>>>),
     PyList(<<PyNone, PyBool(TRUE), PyBool(FALSE), PyList(<<>>), PyDict(<<>>)>>),
     PyList(<<PyText(<<CR>>), PyText(<<128512, 9, 47>>)>>),
     PyText(<<>>),
     PyInt(12),
     PyNone,
     PyDict(<<<<(<<107>>), PyText(<<55296>>)>>>>)}

Indents == {-1, 0, 2, 3}

\* the directory data and nothing else
EmptyJsonTree == [p \in JsonTreePaths |-> IF p = "data" THEN Directory ELSE Absent]

\* the bytes of texts that are not JSON: {"a": and [1,] and the empty text
NotJsonFiles == {<<123, 34, 97, 34, 58>>, <<91, 49, 44, 93>>, <<>>}

\* what conf.json can hold when the server starts: nothing; JSON written by
\* another program, {"a": [1.5, "é"]} with Windows line ends; a text
\* that is not JSON
InitialJsonTrees ==
    {EmptyJsonTree,
     [EmptyJsonTree EXCEPT !["conf.json"] =
         RegularFile(<<123, 34, 97, 34, 58, 32, 91, 49, 46, 53, 44, CR, LF, 34, 92, 117,
                       48, 48, 101, 57, 34, 93, 125, CR, LF>>)]}
    \cup {[EmptyJsonTree EXCEPT !["conf.json"] = RegularFile(bytes)] :
             bytes \in NotJsonFiles}

(***************************************************************************)
(* Inputs of the basic tools                                               *)
(***************************************************************************)
\* ints, floats, and what a caller in Python can pass besides numbers
Operands == {PyInt(-2), PyInt(0), PyInt(5), PyWhole(3), PyWhole(-1),
             PyStr("ab"), PyStr(""), PyNone}

Names == {None, "", " \t\n", "Ada", "  Grace Hopper \n", "x"}

Messages == {None, "", " ", "hello", " hi \n"}

(***************************************************************************)
(* Inputs of run_server                                                    *)
(***************************************************************************)
\* SERVER_PORT in the environment of the process: not set, an int, not an int
ServerPorts == {None, "8000", "eight"}

\* how mcp.run can end: it returns; Ctrl-C; an error of the transport; the
\* port is taken, on which the HTTP server underneath calls sys.exit(1)
TransportOutcomes ==
    {Returned(None),
     Raised(Foreign("KeyboardInterrupt", "")),
     Raised(Foreign("RuntimeError", "Test error")),
     Raised(Foreign("OSError", "[Errno 24] Too many open files")),
     Raised(Foreign("SystemExit", "1"))}

(***************************************************************************)
(* Specifications                                                          *)
(***************************************************************************)
\* the system tools
InitSystem ==
    /\ pc = "idle"
    /\ call = NoCall
    /\ frame = NoFrame
    /\ result = Pending
    /\ procs = <<>>
    /\ http = <<>>
    /\ received = Nothing
    /\ environ = None
    /\ settings = NoSettings
    /\ fs = EmptyTree
    /\ linesep = <<LF>>
    /\ lastWrite = NoWrite
    /\ threads = [t \in Threads |-> NotCalling]
    /\ constructed = IF settings.cached THEN 1 ELSE 0
    /\ server = NotStarted

NextSystem ==
    \/ Accepting /\ \E command \in Commands, timeout \in Timeouts :
          ExecuteCommand(command, timeout)
    \/ \E out \in SubprocessOutcomes : SubprocessReturns(out)
    \/ Reply

SpecSystem == InitSystem /\ [][NextSystem]_vars

\* the email and calendar tools; create_mcp_server has called get_settings()
\* before the first request, a caller of the tool functions as a library has not
InitService ==
    /\ pc = "idle"
    /\ call = NoCall
    /\ frame = NoFrame
    /\ result = Pending
    /\ procs = <<>>
    /\ http = <<>>
    /\ received = Nothing
    /\ environ \in Environs
    /\ settings \in {NoSettings, Settings}
    /\ fs = EmptyTree
    /\ linesep = <<LF>>
    /\ lastWrite = NoWrite
    /\ threads = [t \in Threads |-> NotCalling]
    /\ constructed = IF settings.cached THEN 1 ELSE 0
    /\ server = NotStarted

NextService ==
    \/ Accepting /\ \E to \in Tos, subject \in Subjects, body \in Bodies, elaborate \in BOOLEAN :
          SendEmail(to, subject, body, elaborate)
    \/ Accepting /\ \E title \in Titles, description \in Descriptions, start \in FewDateTimes,
          end \in FewDateTimes, timeZone \in TimeZones, attendees \in AttendeeLists,
          sendUpdates \in SendUpdatesValues :
          ScheduleMeet(title, description, start, end, timeZone, attendees, sendUpdates)
    \/ Accepting /\ \E timeMin \in FewDateTimes, timeMax \in FewDateTimes,
          maxResults \in MaxResultsValues, q \in Queries :
          ListEvents(timeMin, timeMax, maxResults, q)
    \/ \E out \in HttpOutcomes : HttpReturns(out)
    \/ Reply

SpecService == InitService /\ [][NextService]_vars

\* the date-time check of the calendar tools, on many date-time strings
NextDateTime ==
    \/ Accepting /\ \E title \in Titles, start \in DateTimes, end \in FewDateTimes :
          ScheduleMeet(title, None, start, end, None, PyNone, None)
    \/ Accepting /\ \E title \in Titles, start \in FewDateTimes, end \in DateTimes :
          ScheduleMeet(title, None, start, end, None, PyNone, None)
    \/ Accepting /\ \E timeMin \in DateTimes, timeMax \in FewDateTimes :
          ListEvents(timeMin, timeMax, PyNone, None)
    \/ Accepting /\ \E timeMin \in FewDateTimes, timeMax \in DateTimes :
          ListEvents(timeMin, timeMax, PyNone, None)
    \/ \E out \in HttpOutcomes : HttpReturns(out)
    \/ Reply

SpecDateTime == InitSystem /\ [][NextDateTime]_vars

\* the file tools, on either platform
InitFiles ==
    /\ pc = "idle"
    /\ call = NoCall
    /\ frame = NoFrame
    /\ result = Pending
    /\ procs = <<>>
    /\ http = <<>>
    /\ received = Nothing
    /\ environ = None
    /\ settings = NoSettings
    /\ fs \in InitialTrees
    /\ linesep \in LineSeps
    /\ lastWrite = NoWrite
    /\ threads = [t \in Threads |-> NotCalling]
    /\ constructed = IF settings.cached THEN 1 ELSE 0
    /\ server = NotStarted

NextFiles ==
    \/ Accepting /\ \E file_path \in FilePaths, content \in FileContents,
          overwrite \in BOOLEAN :
          WriteFile(file_path, content, overwrite)
    \/ Accepting /\ \E file_path \in FilePaths : ReadFile(file_path)
    \/ Reply

SpecFiles == InitFiles /\ [][NextFiles]_vars

\* list_directory, on directories that write_file changes
InitListing ==
    /\ pc = "idle"
    /\ call = NoCall
    /\ frame = NoFrame
    /\ result = Pending
    /\ procs = <<>>
    /\ http = <<>>
    /\ received = Nothing
    /\ environ = None
    /\ settings = NoSettings
    /\ fs \in InitialListings
    /\ linesep = <<LF>>
    /\ lastWrite = NoWrite
    /\ threads = [t \in Threads |-> NotCalling]
    /\ constructed = IF settings.cached THEN 1 ELSE 0
    /\ server = NotStarted

NextListing ==
    \/ Accepting /\ \E directory_path \in DirectoryPaths, include_hidden \in BOOLEAN :
          \E order \in IterDirOrders(fs, directory_path) :
             ListDirectory(directory_path, include_hidden, order)
    \/ Accepting /\ \E file_path \in ListingWritePaths, content \in ListingContents,
          overwrite \in BOOLEAN :
          WriteFile(file_path, content, overwrite)
    \/ Reply

SpecListing == InitListing /\ [][NextListing]_vars

\* the JSON file tools, on either platform
InitJson ==
    /\ pc = "idle"
    /\ call = NoCall
    /\ frame = NoFrame
    /\ result = Pending
    /\ procs = <<>>
    /\ http = <<>>
    /\ received = Nothing
    /\ environ = None
    /\ settings = NoSettings
    /\ fs \in InitialJsonTrees
    /\ linesep \in LineSeps
    /\ lastWrite = NoWrite
    /\ threads = [t \in Threads |-> NotCalling]
    /\ constructed = IF settings.cached THEN 1 ELSE 0
    /\ server = NotStarted

NextJson ==
    \/ Accepting /\ \E file_path \in JsonTreePaths, data \in JsonData,
          indent \in Indents, overwrite \in BOOLEAN :
          WriteJsonFile(file_path, data, indent, overwrite)
    \/ Accepting /\ \E file_path \in JsonTreePaths : ReadJsonFile(file_path)
    \/ Reply

SpecJson == InitJson /\ [][NextJson]_vars

\* get_settings() called from the threads of one process, none having called
\* it before, while the environment changes
InitSettings ==
    /\ pc = "idle"
    /\ call = NoCall
    /\ frame = NoFrame
    /\ result = Pending
    /\ procs = <<>>
    /\ http = <<>>
    /\ received = Nothing
    /\ environ \in Environs
    /\ settings = NoSettings
    /\ fs = EmptyTree
    /\ linesep = <<LF>>
    /\ lastWrite = NoWrite
    /\ threads = [t \in Threads |-> NotCalling]
    /\ constructed = 0
    /\ server = NotStarted

NextSettings ==
    \/ \E t \in Threads : GetSettingsCall(t)
    \/ \E t \in Threads : SettingsConstruct(t)
    \/ \E t \in Threads : GetSettingsStore(t)
    \/ \E t \in Threads : GetSettingsDone(t)
    \/ \E value \in Environs : SetEnviron(value)

SpecSettings == InitSettings /\ [][NextSettings]_vars

\* the tools of basic.py
NextBasic ==
    \/ Accepting /\ \E a \in Operands, b \in Operands : AddNumbers(a, b)
    \/ Accepting /\ \E a \in Operands, b \in Operands : MultiplyNumbers(a, b)
    \/ Accepting /\ \E name \in Names : GreetUser(name)
    \/ Accepting /\ \E message \in Messages : EchoMessage(message)
    \/ Reply

SpecBasic == InitSystem /\ [][NextBasic]_vars

\* the tools of basic.py, email.py and calendar.py behind their registered
\* functions
NextTools ==
    \/ NextBasic
    \/ NextService
    \/ Accepting /\ \E brief_text \in Bodies, subject \in Subjects \ {None} :
          ElaborateEmailBody(brief_text, subject)

SpecTools == InitService /\ [][NextTools]_vars

\* run_server from its call to its end, the basic tools being invoked while
\* the transport runs
NextServer ==
    \/ \E port \in ServerPorts : RunServer(port)
    \/ Serving /\ \E a \in Operands, b \in Operands : AddNumbers(a, b)
    \/ Serving /\ \E a \in Operands, b \in Operands : MultiplyNumbers(a, b)
    \/ Serving /\ \E name \in Names : GreetUser(name)
    \/ Serving /\ \E message \in Messages : EchoMessage(message)
    \/ server.at = "running" /\ Reply
    \/ \E out \in TransportOutcomes : TransportEnds(out)

SpecServer == InitSystem /\ [][NextServer]_vars

\* write_file on one path that does not exist at first, called once by each
\* thread, the threads running in parallel
NextWriters ==
    \/ \E t \in Threads, content \in WriterContents, overwrite \in BOOLEAN :
          WriteFileCall(t, content, overwrite)
    \/ \E t \in Threads : WriteFileCheck(t)
    \/ \E t \in Threads : WriteFileMkdir(t)
    \/ \E t \in Threads : WriteFileOpen(t)
    \/ \E t \in Threads : WriteFileWrite(t)
    \/ \E t \in Threads : WriteFileResult(t)

SpecWriters == InitSystem /\ [][NextWriters]_vars

(***************************************************************************)
(* Properties                                                              *)
(***************************************************************************)
\* the caller got a ValidationError that names field
FailedValidation(field) ==
    /\ pc = "done"
    /\ result.status = "raised"
    /\ result.exc.cls = "ValidationError"
    /\ result.exc.error_code = "VALIDATION_ERROR"
    /\ result.exc.field = field

\* the caller got a MacroManError that is not a ValidationError
FailedGeneric ==
    /\ pc = "done"
    /\ result.status = "raised"
    /\ result.exc.cls = "MacroManError"
    /\ result.exc.error_code = "GENERIC_ERROR"

\* the substrings of the deny-list, as the specification lists them
DenyList == {"rm -rf", "sudo", "su", "chmod 777", "dd if=", "mkfs"}

\* C1: a command whose lower-cased form contains a deny-listed substring fails
\* with a validation error (VALIDATION_ERROR, field 'command') and starts no
\* subprocess.
C1_DangerousCommandFailsValidation ==
    (call.tool = "execute_command"
        /\ \E d \in DenyList : Contains(Lower(call.command), d))
    => (FailedValidation("command") /\ procs = <<>>)

\* C2: an empty or whitespace-only command raises ValidationError with field
\* 'command' and message 'Command cannot be empty', and starts no subprocess.
C2_EmptyCommandFailsValidation ==
    (call.tool = "execute_command" /\ AllIn(call.command, Whitespace))
    => (/\ FailedValidation("command")
        /\ result.exc.message = "Command cannot be empty"
        /\ procs = <<>>)

\* the arguments of the send_email call pass its validation
SendEmailInputsValid ==
    /\ call.tool = "send_email"
    /\ ~Blank(call.to) /\ ~Blank(call.subject) /\ ~Blank(call.body)
    /\ email_pattern(Strip(call.to))

\* the base URL the process is configured with
ConfiguredBaseUrl == IF environ = None THEN "http://localhost:3000" ELSE environ

\* the one request of a send_email call goes to /send-email with the JSON
\* header, the 30 second timeout and the trimmed recipient and subject
SendEmailRequestShape ==
    /\ Len(http) = 1
    /\ http[1].url = ConfiguredBaseUrl \o "/send-email"
    /\ DOMAIN http[1].headers = {"Content-Type"}
    /\ http[1].headers["Content-Type"] = "application/json"
    /\ http[1].timeout = 30
    /\ DOMAIN http[1].json = {"to", "subject", "body"}
    /\ http[1].json.to = Strip(call.to)
    /\ http[1].json.subject = Strip(call.subject)

AnsweredSuccess ==
    /\ call.tool = "send_email"
    /\ received.kind = "response"
    /\ received.status_code = 200
    /\ received.json.t = "object"
    /\ DOMAIN received.json.o = {"success", "messageId"}
    /\ received.json.o.success = JBool(TRUE)

\* the fields of the result that do not depend on the body
SendEmailResultEcho ==
    /\ pc = "done"
    /\ result.status = "returned"
    /\ result.value.success = JBool(TRUE)
    /\ result.value.messageId = received.json.o.messageId
    /\ result.value.recipient = Strip(call.to)
    /\ result.value.subject = Strip(call.subject)

BadAttendees(attendees) ==
    /\ attendees.t # "none"
    /\ \/ attendees.t # "list"
       \/ attendees.l = <<>>
       \/ \E i \in 1..Len(attendees.l) :
             Blank(attendees.l[i]) \/ ~email_pattern(Strip(attendees.l[i]))

\* the arguments of the call that break a rule of the tool
OffendingFields ==
    CASE call.tool = "send_email" ->
            {f \in {"to"} : Blank(call.to) \/ ~email_pattern(Strip(call.to))}
            \cup {f \in {"subject"} : Blank(call.subject)}
            \cup {f \in {"body"} : Blank(call.body)}
      [] call.tool = "schedule_meet" ->
            {f \in {"title"} : Blank(call.title)}
            \cup {f \in {"start"} : Blank(call.start) \/ ~iso_like(Strip(call.start))}
            \cup {f \in {"end"} : Blank(call.end) \/ ~iso_like(Strip(call.end))}
            \cup {f \in {"attendees"} : BadAttendees(call.attendees)}
            \cup {f \in {"sendUpdates"} :
                    call.sendUpdates # None
                    /\ call.sendUpdates \notin {"all", "externalOnly", "none"}}
      [] call.tool = "list_events" ->
            {f \in {"timeMin"} : Blank(call.timeMin) \/ ~iso_like(Strip(call.timeMin))}
            \cup {f \in {"timeMax"} : Blank(call.timeMax) \/ ~iso_like(Strip(call.timeMax))}
            \cup {f \in {"maxResults"} :
                    call.maxResults.t = "int" /\ call.maxResults.n <= 0}
      [] OTHER -> {}

\* C5: in send_email, schedule_meet and list_events a call with an argument
\* that breaks a rule ends with a ValidationError naming such an argument and
\* has issued no HTTP request; a ValidationError never follows a request.
C5_ValidationPrecedesRequest ==
    /\ OffendingFields # {}
         => /\ pc = "done"
            /\ result.status = "raised"
            /\ result.exc.cls = "ValidationError"
            /\ result.exc.field \in OffendingFields
            /\ http = <<>>
    /\ (result.status = "raised" /\ result.exc.cls = "ValidationError") => http = <<>>

C5_Witness ==
    /\ call.tool = "schedule_meet"
    /\ call.attendees = PyList(<<"user@example.com", "bad-email">>)
    /\ OffendingFields = {"attendees"}
    /\ FailedValidation("attendees")
    /\ http = <<>>

\* the backend answered with a status other than 200
AnsweredError == received.kind = "response" /\ received.status_code # 200

\* C6: after any non-200 response, whatever its body, the error message holds
\* 'status <code>' and, when the body is a JSON object with a 'message' string,
\* that message text.
C6_ErrorMessageNamesStatus ==
    AnsweredError
    => /\ pc = "done"
       /\ result.status = "raised"
       /\ Contains(result.exc.message, "status " \o IntStr(received.status_code))
       /\ (/\ received.json.t = "object"
           /\ "message" \in DOMAIN received.json.o
           /\ received.json.o.message.t = "string")
            => Contains(result.exc.message, received.json.o.message.s)

\* the outbound call failed: no 200 response with a JSON body
OutboundFailure ==
    /\ call.tool \in {"send_email", "schedule_meet", "list_events"}
    /\ \/ received.kind = "raise"
       \/ AnsweredError
       \/ received.kind = "response" /\ received.json.t = "invalid"

\* httpx exception classes, as the specification groups them
TimeoutClasses == {"ConnectTimeout", "ReadTimeout"}
ConnectClasses == {"ConnectError"}
OtherRequestClasses == {"ReadError", "TooManyRedirects"}

\* C7: every outbound-call failure reaches the caller as a MacroManError with
\* code GENERIC_ERROR that is not a ValidationError; its message holds 'timed
\* out' for a timeout, 'Could not connect' for a connection failure and
\* 'request failed' for any other request error.
C7_ServiceFailureIsGenericError ==
    OutboundFailure
    => /\ FailedGeneric
       /\ result.exc.cls # "ValidationError"
       /\ (received.kind = "raise" /\ received.exc.cls \in TimeoutClasses)
            => Contains(result.exc.message, "timed out")
       /\ (received.kind = "raise" /\ received.exc.cls \in ConnectClasses)
            => Contains(result.exc.message, "Could not connect")
       /\ (received.kind = "raise" /\ received.exc.cls \in OtherRequestClasses)
            => Contains(result.exc.message, "request failed")

C7_Witness ==
    /\ OutboundFailure
    /\ received.kind = "raise"
    /\ received.exc.cls = "ReadTimeout"
    /\ call.tool = "list_events"
    /\ FailedGeneric

\* C8: an invocation of send_email, schedule_meet or list_events issues at most
\* one HTTP POST; once the call has failed the handler has ended with the error
\* and that one request.
C8_AtMostOneRequest ==
    /\ Len(http) <= 1
    /\ OutboundFailure
         => (pc = "done" /\ result.status = "raised" /\ Len(http) = 1)

C8_Witness ==
    /\ OutboundFailure
    /\ AnsweredError
    /\ call.tool = "send_email"
    /\ pc = "done"
    /\ Len(http) = 1

\* YYYY-MM-DDTHH:MM:SS followed by 'Z' or by +HH:MM / -HH:MM
DateTimeFormat(s) ==
    LET digit(i) == SubSeq(s, i, i) \in {"0", "1", "2", "3", "4", "5", "6", "7", "8", "9"}
        char(i, c) == SubSeq(s, i, i) = c
    IN  /\ Len(s) \in {20, 25}
        /\ \A i \in {1, 2, 3, 4, 6, 7, 9, 10, 12, 13, 15, 16, 18, 19} : digit(i)
        /\ char(5, "-") /\ char(8, "-") /\ char(11, "T")
        /\ char(14, ":") /\ char(17, ":")
        /\ Len(s) = 20 => char(20, "Z")
        /\ Len(s) = 25 => /\ (char(20, "+") \/ char(20, "-"))
                          /\ digit(21) /\ digit(22) /\ char(23, ":")
                          /\ digit(24) /\ digit(25)

\* a date-time argument that is given, not empty and not of the format
Malformed(x) == x # None /\ x # "" /\ ~DateTimeFormat(Strip(x))
WellFormed(x) == x # None /\ DateTimeFormat(Strip(x))

\* the date-time arguments of the call, by name
DateTimeArgs ==
    CASE call.tool = "schedule_meet" -> [start |-> call.start, end |-> call.end]
      [] call.tool = "list_events" -> [timeMin |-> call.timeMin, timeMax |-> call.timeMax]
      [] OTHER -> <<>>

\* C9 as stated: every malformed date-time argument makes the call fail with a
\* ValidationError whose field is the name of that argument, and a well-formed
\* one is never rejected.
C9_MalformedDateTimeNamesItsField ==
    \A f \in DOMAIN DateTimeArgs :
        /\ Malformed(DateTimeArgs[f]) => FailedValidation(f)
        /\ WellFormed(DateTimeArgs[f]) => ~FailedValidation(f)

\* the checks that run before the format check of a date-time argument pass:
\* the required arguments are not blank and, for end and timeMax, start and
\* timeMin are well-formed
EarlierChecksPass(f) ==
    CASE f = "start" -> ~Blank(call.title) /\ ~Blank(call.end)
      [] f = "end" -> ~Blank(call.title) /\ WellFormed(call.start)
      [] f = "timeMin" -> ~Blank(call.timeMax)
      [] f = "timeMax" -> WellFormed(call.timeMin)

\* C9 amended: a malformed date-time argument makes the call fail with a
\* ValidationError; the field is the name of that argument when the checks
\* that run before its format check pass, and otherwise the name of the
\* argument that fails the earlier check.  A well-formed one is never rejected.
C9_FirstMalformedDateTimeNamesItsField ==
    \A f \in DOMAIN DateTimeArgs :
        /\ Malformed(DateTimeArgs[f])
             => /\ pc = "done"
                /\ result.status = "raised"
                /\ result.exc.cls = "ValidationError"
                /\ http = <<>>
                /\ EarlierChecksPass(f) => FailedValidation(f)
                /\ ~EarlierChecksPass(f) => ~FailedValidation(f) \/ Blank(DateTimeArgs[f])
        /\ WellFormed(DateTimeArgs[f]) => ~FailedValidation(f)

C9_Witness ==
    /\ call.tool = "schedule_meet"
    /\ WellFormed(call.start)
    /\ call.end = "2025-10-21T10:00:00+0530"
    /\ FailedValidation("end")

\* read_file has finished, and the last call on the same path before this one
\* was a write_file that succeeded
ReadAfterWrite ==
    /\ pc = "done"
    /\ call.tool = "read_file"
    /\ lastWrite.path = call.file_path

\* C10: a successful write_file(path, content) followed by read_file(path),
\* with no other call on that path in between, returns a string equal to
\* content character for character, whatever the content holds (carriage
\* returns, CR LF pairs, non-ASCII characters).
C10_ReadReturnsWhatWasWritten ==
    ReadAfterWrite =>
        /\ result.status = "returned"
        /\ result.value = lastWrite.content

\* this step is a whole write_file call with the given overwrite flag
WriteFileStep(overwrite) ==
    /\ pc = "idle"
    /\ pc' = "done"
    /\ call'.tool = "write_file"
    /\ call'.overwrite = overwrite

\* C11: write_file(path, content, overwrite=false) on a path that exists
\* (a regular file or a directory) fails with a ValidationError on field
\* 'file_path' and leaves every entry of the tree, the content of the
\* existing file included, as it was.
C11_NoOverwriteKeepsExistingPath ==
    [][(WriteFileStep(FALSE) /\ Exists(fs, call'.file_path))
          => /\ result'.status = "raised"
             /\ result'.exc.cls = "ValidationError"
             /\ result'.exc.error_code = "VALIDATION_ERROR"
             /\ result'.exc.field = "file_path"
             /\ fs' = fs]_vars

\* C11 witness: a write_file without overwrite was refused on a path that
\* holds a regular file with content
C11_Witness ==
    /\ FailedValidation("file_path")
    /\ call.tool = "write_file"
    /\ ~call.overwrite
    /\ fs[call.file_path].kind = "file"
    /\ fs[call.file_path].bytes # <<>>

\* path can hold a regular file after the call: it is not a directory and its
\* parent is a directory or can be made one
Writable(tree, p) ==
    /\ ~IsDir(tree, p)
    /\ Mkdir(tree, Parent(p)).ok

\* str.encode("utf-8") accepts the text
Encodable(text) == \A i \in 1..Len(text) : ~IsSurrogate(text[i])

ListedDirectory ==
    /\ pc = "done"
    /\ call.tool = "list_directory"
    /\ IsDir(fs, call.directory_path)

\* the names list_directory has to return for its arguments
ExpectedNames ==
    {Name(p) : p \in {q \in Children(fs, Resolve(fs, call.directory_path)) :
                          call.include_hidden \/ Head(Name(q)) # "."}}

\* C13: for every existing directory, list_directory returns exactly the
\* entries whose name does not start with '.' when include_hidden is false and
\* every entry when it is true, sorted ascending by name.
C13_ListingFiltersHiddenAndSorts ==
    ListedDirectory =>
        /\ result.status = "returned"
        /\ {result.value[i].name : i \in 1..Len(result.value)} = ExpectedNames
        /\ Len(result.value) = Cardinality(ExpectedNames)
        /\ \A i, j \in 1..Len(result.value) :
              i < j => StrLess(result.value[i].name, result.value[j].name)

\* read_json_file has finished, and the last call on the same path before
\* this one was a write_json_file that succeeded
ReadJsonAfterWrite ==
    /\ pc = "done"
    /\ call.tool = "read_json_file"
    /\ lastWrite.path = call.file_path
    /\ "data" \in DOMAIN lastWrite

\* C14: a successful write_json_file(path, data, indent) followed by
\* read_json_file(path) returns a structure equal to data, item by item and
\* in the same order, for every indent and for strings outside ASCII.
C14_JsonReadReturnsWhatWasWritten ==
    ReadJsonAfterWrite =>
        /\ result.status = "returned"
        /\ result.value = lastWrite.data

\* C14 witness: a nested structure with CR LF, a quote, a backslash, a
\* control character and non-ASCII characters in its strings was written
\* without indentation where os.linesep is CR LF, over an existing file, and
\* read back
C14_Witness ==
    /\ ReadJsonAfterWrite
    /\ result.status = "returned"
    /\ result.value.t = "dict"
    /\ Len(result.value.items) = 2
    /\ result.value.items[2][2] = PyText(<<97, CR, LF, 8364, 92, 34, 1>>)
    /\ linesep = <<CR, LF>>
    /\ \E i \in 1..(Len(fs["conf.json"].bytes) - 1) :
          fs["conf.json"].bytes[i] = CR /\ fs["conf.json"].bytes[i + 1] = LF

\* subprocess.run of the running execute_command has raised TimeoutExpired,
\* and the call has ended
TimedOut ==
    /\ pc = "done"
    /\ call.tool = "execute_command"
    /\ received # Nothing
    /\ received.kind = "raise"
    /\ received.exc.cls = "TimeoutExpired"

\* C15: when the subprocess of execute_command exceeds the timeout, the call
\* raises a MacroManError that is no ValidationError, with the message
\* "Command timed out after <timeout> seconds", and the command has been
\* started once.
C15_TimeoutIsGenericErrorAndNoRetry ==
    TimedOut =>
        /\ result.status = "raised"
        /\ result.exc.cls = "MacroManError"
        /\ ~Catches("ValidationError", result.exc)
        /\ result.exc.error_code = "GENERIC_ERROR"
        /\ result.exc.message =
              "Command timed out after " \o IntStr(call.timeout) \o " seconds"
        /\ Len(procs) = 1
        /\ procs[1].args = call.command

\* C15 witness: a command run with timeout 5 timed out
C15_Witness ==
    /\ TimedOut
    /\ call.timeout = 5
    /\ result.status = "raised"
    /\ result.exc.message = "Command timed out after 5 seconds"
    /\ Len(procs) = 1

\* C16: within one process every call of get_settings() returns the same
\* Settings object, whatever the interleaving of the first calls: Settings
\* is constructed at most once, and two callers hold the same object with
\* the same values, also when the environment has changed in between.
C16_OneSettingsObject ==
    /\ constructed <= 1
    /\ \A t, u \in Threads :
          threads[t].pc = "returned" /\ threads[u].pc = "returned"
              => threads[t].got = threads[u].got

\* the tools whose registered function has a try statement
CaughtTools == DOMAIN FailureMessages \cup {"elaborate_email_body"}

KindTags == {"kind", "code", "error_code", "type"}

\* C18: a failure payload returned by the function registered for
\* send_email, schedule_meet or list_events carries the kind or code of the
\* error and a message and, for a validation error, the offending field, so
\* that a validation failure and a service failure differ in their tag.
C18_FailurePayloadCarriesKind ==
    (pc = "done" /\ call.tool \in DOMAIN FailureMessages /\ result.status = "raised") =>
        LET payload == Registered(call.tool, result).value.dumps IN
        /\ \E tag \in KindTags :
              /\ tag \in DOMAIN payload
              /\ payload[tag] \in {result.exc.cls, result.exc.error_code}
        /\ "message" \in DOMAIN payload
        /\ Catches("ValidationError", result.exc) =>
              /\ "field" \in DOMAIN payload
              /\ payload["field"] = result.exc.field

\* C19: every ValidationError a tool function raises carries the name of
\* the offending field, never None, and the code VALIDATION_ERROR.
C19_ValidationErrorNamesField ==
    (pc = "done" /\ result.status = "raised" /\ Catches("ValidationError", result.exc)) =>
        /\ result.exc.field # None
        /\ result.exc.error_code = "VALIDATION_ERROR"

\* C20: the server offers a read_email tool, which checks its filters and
\* posts them to {base_url}/read-email: a server that accepts invocations
\* has the tool among those it registered.
C20_ReadEmailOffered ==
    Accepting => \E name \in register_tools : name \in {"read_email", "_read_email"}

\* schedule_meet or list_events has posted its request
CalendarPosted == call.tool \in {"schedule_meet", "list_events"} /\ http # <<>>

\* an optional text argument was supplied: not None and not blank
Supplied(text) == text # None /\ Strip(text) # ""

\* each address of an attendees list, trimmed
Trimmed(addresses) == [i \in DOMAIN addresses |-> Strip(addresses[i])]

\* C21: the payload posted by schedule_meet and by list_events holds the
\* required fields trimmed (title, start, end; timeMin, timeMax), an optional
\* field exactly when the caller supplied it (description, timeZone and q when
\* not blank, then trimmed; attendees as the list of trimmed addresses;
\* sendUpdates and maxResults as given), and no other key.
C21_PayloadSparseAndNormalised ==
    CalendarPosted =>
      LET payload == http[1].json IN
      IF call.tool = "schedule_meet"
      THEN /\ DOMAIN payload
                = {"title", "start", "end"}
                  \cup {k \in {"description"} : Supplied(call.description)}
                  \cup {k \in {"timeZone"} : Supplied(call.timeZone)}
                  \cup {k \in {"attendees"} : call.attendees # PyNone}
                  \cup {k \in {"sendUpdates"} : call.sendUpdates # None}
           /\ payload.title = Strip(call.title)
           /\ payload.start = Strip(call.start)
           /\ payload.end = Strip(call.end)
           /\ Supplied(call.description) => payload.description = Strip(call.description)
           /\ Supplied(call.timeZone) => payload.timeZone = Strip(call.timeZone)
           /\ call.attendees # PyNone => payload.attendees = Trimmed(call.attendees.l)
           /\ call.sendUpdates # None => payload.sendUpdates = call.sendUpdates
      ELSE /\ DOMAIN payload
                = {"timeMin", "timeMax"}
                  \cup {k \in {"maxResults"} : call.maxResults # PyNone}
                  \cup {k \in {"q"} : Supplied(call.q)}
           /\ payload.timeMin = Strip(call.timeMin)
           /\ payload.timeMax = Strip(call.timeMax)
           /\ call.maxResults # PyNone => payload.maxResults = call.maxResults
           /\ Supplied(call.q) => payload.q = Strip(call.q)

C21_Witness ==
    /\ CalendarPosted
    /\ call.tool = "schedule_meet"
    /\ call.description = "  "
    /\ call.timeZone = " UTC "
    /\ call.attendees = PyList(<<" user@example.com ">>)
    /\ call.sendUpdates = "externalOnly"
    /\ DOMAIN http[1].json = {"title", "start", "end", "timeZone", "attendees", "sendUpdates"}

\* the sendUpdates argument of the call is supplied and outside its domain
SendUpdatesOutside ==
    /\ call.tool = "schedule_meet"
    /\ call.sendUpdates # None
    /\ call.sendUpdates \notin {"all", "externalOnly", "none"}

\* the maxResults argument of the call is a positive integer; a bool is an
\* int for isinstance, True being 1 and False 0
MaxResultsPositive ==
    \/ call.maxResults.t = "int" /\ call.maxResults.n > 0
    \/ call.maxResults.t = "bool" /\ call.maxResults.b

\* the maxResults argument of the call is supplied and outside its domain
MaxResultsOutside ==
    /\ call.tool = "list_events"
    /\ call.maxResults # PyNone
    /\ ~MaxResultsPositive

\* a calendar call has been decided: rejected by a check, or posted
CalendarDecided ==
    /\ call.tool \in {"schedule_meet", "list_events"}
    /\ pc \in {"http", "done"}

\* C22 as stated: a supplied sendUpdates outside {all, externalOnly, none}
\* makes schedule_meet fail with a ValidationError on field 'sendUpdates', a
\* supplied maxResults that is not a positive integer makes list_events fail
\* with a ValidationError on field 'maxResults', and values inside the domain
\* are not rejected.
C22_OutsideDomainNamesItsField ==
    /\ SendUpdatesOutside => FailedValidation("sendUpdates")
    /\ MaxResultsOutside => FailedValidation("maxResults")
    /\ (call.tool = "schedule_meet" /\ ~SendUpdatesOutside)
         => ~FailedValidation("sendUpdates")
    /\ (call.tool = "list_events" /\ ~MaxResultsOutside)
         => ~FailedValidation("maxResults")

\* the checks that run before the sendUpdates check of schedule_meet pass
SendUpdatesReached ==
    ~Blank(call.title) /\ WellFormed(call.start) /\ WellFormed(call.end)

\* the checks that run before the maxResults check of list_events pass
MaxResultsReached == WellFormed(call.timeMin) /\ WellFormed(call.timeMax)

\* C22 amended: a value outside the domain always makes the call fail with a
\* ValidationError before any request; the field is the name of the argument
\* when the checks that run before its own check pass, and the field of the
\* earlier failing check otherwise.  Values inside the domain are never
\* rejected on that field.
C22_OutsideDomainRejectedInOrder ==
    /\ SendUpdatesOutside
         => /\ pc = "done" /\ result.status = "raised"
            /\ result.exc.cls = "ValidationError"
            /\ http = <<>>
            /\ FailedValidation("sendUpdates") <=> SendUpdatesReached
            /\ ~SendUpdatesReached
                 => \E f \in {"title", "start", "end"} : FailedValidation(f)
    /\ MaxResultsOutside
         => /\ pc = "done" /\ result.status = "raised"
            /\ result.exc.cls = "ValidationError"
            /\ http = <<>>
            /\ FailedValidation("maxResults") <=> MaxResultsReached
            /\ ~MaxResultsReached
                 => \E f \in {"timeMin", "timeMax"} : FailedValidation(f)
    /\ (call.tool = "schedule_meet" /\ ~SendUpdatesOutside)
         => ~FailedValidation("sendUpdates")
    /\ (call.tool = "list_events" /\ ~MaxResultsOutside)
         => ~FailedValidation("maxResults")
    /\ (CalendarDecided /\ call.tool = "list_events" /\ MaxResultsReached
          /\ ~MaxResultsOutside) => http # <<>>

C22_Witness ==
    /\ call.tool = "list_events"
    /\ call.maxResults = PyInt(0)
    /\ MaxResultsReached
    /\ FailedValidation("maxResults")
    /\ http = <<>>

\* read_json_file has finished on a regular file that read_file can read
ReadJsonOfText ==
    /\ pc = "done"
    /\ call.tool = "read_json_file"
    /\ IsFile(fs, call.file_path)
    /\ read_file(fs, call.file_path).status = "returned"

\* the text of the file that read_json_file was called on is not JSON
TextIsNotJson == ~json_loads(read_file(fs, call.file_path).value).ok

\* s starts with prefix
StartsWith(s, prefix) == Len(s) >= Len(prefix) /\ SubSeq(s, 1, Len(prefix)) = prefix

\* C23: read_json_file on an existing regular file whose text is not valid
\* JSON fails with a ValidationError, code VALIDATION_ERROR, field 'file_path'
\* and a message that starts with 'Invalid JSON', and returns nothing; the
\* texts {"a": and [1,] and the empty text are such texts.
C23_InvalidJsonIsValidationError ==
    ReadJsonOfText =>
      /\ Node(fs, call.file_path).bytes \in NotJsonFiles => TextIsNotJson
      /\ TextIsNotJson
           => /\ result.status = "raised"
              /\ result.exc.cls = "ValidationError"
              /\ result.exc.error_code = "VALIDATION_ERROR"
              /\ result.exc.field = "file_path"
              /\ StartsWith(result.exc.message, "Invalid JSON")

C23_Witness ==
    /\ ReadJsonOfText
    /\ Node(fs, call.file_path).bytes = <<91, 49, 44, 93>>
    /\ FailedValidation("file_path")
    /\ StartsWith(result.exc.message, "Invalid JSON in file: ")
    /\ Contains(result.exc.message, "(char 3)")

\* read_file has finished
ReadFileDone == pc = "done" /\ call.tool = "read_file"

\* C24: read_file fails with a ValidationError on field 'file_path' when the
\* path does not exist, with the message 'File does not exist: <path>', and
\* when it exists and is not a regular file, with 'Path is not a file: <path>';
\* the error is not wrapped into a generic one, and a regular file never gets
\* either.
C24_MissingAndNotAFileAreValidationErrors ==
    ReadFileDone =>
      /\ ~Exists(fs, call.file_path)
           => /\ FailedValidation("file_path")
              /\ result.exc.message = "File does not exist: " \o call.file_path
      /\ (Exists(fs, call.file_path) /\ ~IsFile(fs, call.file_path))
           => /\ FailedValidation("file_path")
              /\ result.exc.message = "Path is not a file: " \o call.file_path
      /\ IsFile(fs, call.file_path)
           => ~(result.status = "raised" /\ result.exc.cls = "ValidationError")

C24_Witness ==
    /\ ReadFileDone
    /\ Exists(fs, call.file_path)
    /\ Node(fs, call.file_path).kind = "dir"
    /\ FailedValidation("file_path")
    /\ result.exc.message = "Path is not a file: " \o call.file_path

\* greet_user has finished
GreetUserDone == pc = "done" /\ call.tool = "greet_user"

\* the character of s at position i is white space
SpaceAt(s, i) == SubSeq(s, i, i) \in {" ", "\t", "\n", "\r"}

\* core is s without the white space at its two ends, and is not empty
TrimsTo(s, core) ==
    \E i \in 1..Len(s), j \in 1..Len(s) :
        /\ i <= j
        /\ core = SubSeq(s, i, j)
        /\ ~SpaceAt(s, i) /\ ~SpaceAt(s, j)
        /\ \A k \in 1..Len(s) : (k < i \/ k > j) => SpaceAt(s, k)

\* s is empty or white space only; None stands for a missing name
EmptyOrSpace(s) == s = None \/ \A k \in 1..Len(s) : SpaceAt(s, k)

\* C25: for every name that is not empty after trimming greet_user returns
\* 'Hello, <trimmed name>! Nice to meet you.'; for every name that is empty or
\* white space only it fails with a ValidationError on field 'name'.
C25_GreetingOfTrimmedName ==
    GreetUserDone =>
      IF EmptyOrSpace(call.name)
      THEN FailedValidation("name")
      ELSE /\ result.status = "returned"
           /\ \E i \in 1..Len(call.name), j \in 1..Len(call.name) :
                 /\ TrimsTo(call.name, SubSeq(call.name, i, j))
                 /\ result.value
                      = "Hello, " \o SubSeq(call.name, i, j) \o "! Nice to meet you."

C25_Witness ==
    /\ GreetUserDone
    /\ call.name = "  Grace Hopper \n"
    /\ result = Returned("Hello, Grace Hopper! Nice to meet you.")

\* run_server has ended
ServerEnded == server.at = "ended"

\* the entries run_server logged after 'Starting Macro-Man MCP Server...'
LoggedAfterStart ==
    LET starts == {i \in 1..Len(server.log) :
                     server.log[i] = LogInfo("Starting Macro-Man MCP Server...")}
    IN IF starts = {} THEN server.log
       ELSE SubSeq(server.log, (CHOOSE i \in starts : TRUE) + 1, Len(server.log))

\* 'Server stopped' is the last entry of the log
StoppedLoggedLast ==
    server.log # <<>> /\ server.log[Len(server.log)] = LogInfo("Server stopped")

\* C26 as stated: on every path by which run_server ends 'Server stopped' is
\* logged last; a KeyboardInterrupt of the transport is logged and swallowed,
\* any other exception is logged at error level and re-raised unchanged, and a
\* normal return logs only the stop.
C26_StoppedLoggedOnEveryExit ==
    ServerEnded =>
      /\ StoppedLoggedLast
      /\ server.transport.status = "returned"
           => /\ server.outcome = Returned(None)
              /\ LoggedAfterStart = <<LogInfo("Server stopped")>>
      /\ (server.transport.status = "raised"
            /\ server.transport.exc.cls = "KeyboardInterrupt")
           => /\ server.outcome = Returned(None)
              /\ LoggedAfterStart = <<LogInfo("Server shutdown requested"),
                                      LogInfo("Server stopped")>>
      /\ (server.transport.status = "raised"
            /\ server.transport.exc.cls # "KeyboardInterrupt")
           => /\ server.outcome = server.transport
              /\ LoggedAfterStart
                   = <<LogError("Server error", Str(server.transport.exc)),
                       LogInfo("Server stopped")>>

\* C26 amended: on every path by which run_server ends after
\* create_mcp_server has returned, 'Server stopped' is logged last; a
\* KeyboardInterrupt of the transport is logged and swallowed, any other
\* exception derived from Exception is logged at error level and re-raised
\* unchanged, an exception that is neither (SystemExit) is re-raised
\* unchanged with only the stop logged, and a normal return logs only the
\* stop.  When create_mcp_server raises, run_server ends with that exception
\* and 'Server stopped' is not logged.
C26_StoppedLoggedOnceTransportRan ==
    ServerEnded =>
      /\ server.transport = Pending
           => /\ server.outcome.status = "raised"
              /\ server.log = <<>>
      /\ server.transport # Pending => StoppedLoggedLast
      /\ server.transport.status = "returned"
           => /\ server.outcome = Returned(None)
              /\ LoggedAfterStart = <<LogInfo("Server stopped")>>
      /\ (server.transport.status = "raised"
            /\ server.transport.exc.cls = "KeyboardInterrupt")
           => /\ server.outcome = Returned(None)
              /\ LoggedAfterStart = <<LogInfo("Server shutdown requested"),
                                      LogInfo("Server stopped")>>
      /\ (server.transport.status = "raised"
            /\ server.transport.exc.cls # "KeyboardInterrupt"
            /\ IsSubclass(server.transport.exc.cls, "Exception"))
           => /\ server.outcome = server.transport
              /\ LoggedAfterStart
                   = <<LogError("Server error", Str(server.transport.exc)),
                       LogInfo("Server stopped")>>
      /\ (server.transport.status = "raised"
            /\ server.transport.exc.cls # "KeyboardInterrupt"
            /\ ~IsSubclass(server.transport.exc.cls, "Exception"))
           => /\ server.outcome = server.transport
              /\ LoggedAfterStart = <<LogInfo("Server stopped")>>

C26_Witness ==
    /\ ServerEnded
    /\ server.transport = Raised(Foreign("RuntimeError", "Test error"))
    /\ server.outcome = server.transport
    /\ server.log = <<LogInfo("MCP server created"),
                      LogInfo("Starting Macro-Man MCP Server..."),
                      LogError("Server error", "Test error"),
                      LogInfo("Server stopped")>>

\* send_email has passed a body to the service
SendEmailPosted == call.tool = "send_email" /\ http # <<>>

\* send_email has returned a result
SendEmailReturned ==
    call.tool = "send_email" /\ pc = "done" /\ result.status = "returned"

\* C27: the elaborate flag decides the body send_email passes to the service:
\* the trimmed body when it is false, elaborate_email_body(trimmed body,
\* trimmed subject) when it is true; every result has 'elaborated' equal to
\* the flag and body_length equal to the length of the body that was sent.
C27_ElaborateFlagDecidesBody ==
    /\ SendEmailPosted
         => http[1].json.body
              = IF call.elaborate
                THEN elaborate_email_body(Strip(call.body), Strip(call.subject)).value
                ELSE Strip(call.body)
    /\ SendEmailReturned
         => /\ SendEmailPosted
            /\ result.value.elaborated = call.elaborate
            /\ result.value.body_length = Len(http[1].json.body)
            /\ result.value.body_length
                 = IF call.elaborate
                   THEN Len(elaborate_email_body(Strip(call.body),
                                                 Strip(call.subject)).value)
                   ELSE Len(Strip(call.body))

C27_Witness ==
    /\ SendEmailReturned
    /\ ~call.elaborate
    /\ call.body = "  please call me back \n"
    /\ http[1].json.body = "please call me back"
    /\ result.value.elaborated = FALSE
    /\ result.value.body_length = 19

\* the step is a whole write_file call that returns a result
WriteFileSucceeds ==
    /\ pc = "idle" /\ pc' = "done"
    /\ call'.tool = "write_file"
    /\ result'.status = "returned"

\* C28: the 'overwritten' field of a successful write_file result is true
\* exactly when a file existed at the path before the call, and false when
\* the call created the file, whatever the overwrite argument.
C28_OverwrittenIffReplaced ==
    [][WriteFileSucceeds
         => (result'.value.overwritten <=> Exists(fs, call'.file_path))]_vars

\* the threads that have called write_file
Writers == {t \in Threads : threads[t] # NotCalling}

\* the threads whose write_file has returned a result
Winners == {t \in Writers : threads[t].at = "done"
                             /\ threads[t].outcome.status = "returned"}

\* C29: when two or more write_file(path, content_i, overwrite=false) calls
\* run concurrently on a path that does not exist at first, at most one of
\* them succeeds, and once all have ended the file holds the content of the
\* one that succeeded.
C29_AtMostOneWriterSucceeds ==
    (\A t \in Writers : ~threads[t].overwrite)
    => /\ Cardinality(Winners) <= 1
       /\ (\A t \in Writers : threads[t].at = "done")
            => \A w \in Winners :
                  Node(fs, WriterPath)
                    = RegularFile(Utf8Encode(WriteTranslate(threads[w].content,
                                                            linesep)).bytes)

\* read_json_file has finished on a path that does not exist or is not a
\* regular file
ReadJsonOfBadPath ==
    /\ pc = "done"
    /\ call.tool = "read_json_file"
    /\ ~IsFile(fs, call.file_path)

\* C30 as stated: read_json_file on a path that does not exist or is not a
\* regular file gives the caller the error read_file produces for that path,
\* a ValidationError with code VALIDATION_ERROR and field 'file_path'.
C30_DelegationKeepsErrorKind ==
    ReadJsonOfBadPath
    => /\ result = read_file(fs, call.file_path)
       /\ FailedValidation("file_path")

\* C30 amended: on such a path read_file raises a ValidationError on field
\* 'file_path', and read_json_file gives the caller a MacroManError with code
\* GENERIC_ERROR, no field, and the message 'Failed to read JSON file: '
\* followed by the message of that ValidationError.
C30_DelegationWrapsBadPath ==
    ReadJsonOfBadPath
    => LET inner == read_file(fs, call.file_path) IN
       /\ inner.status = "raised"
       /\ inner.exc.cls = "ValidationError"
       /\ inner.exc.field = "file_path"
       /\ inner.exc.message
            = (IF Exists(fs, call.file_path) THEN "Path is not a file: "
               ELSE "File does not exist: ") \o call.file_path
       /\ result.status = "raised"
       /\ result.exc.cls = "MacroManError"
       /\ result.exc.error_code = "GENERIC_ERROR"
       /\ result.exc.field = None
       /\ result.exc.message = "Failed to read JSON file: " \o inner.exc.message

C30_Witness ==
    /\ ReadJsonOfBadPath
    /\ call.file_path = "conf.json"
    /\ result.status = "raised"
    /\ result.exc.cls = "MacroManError"
    /\ result.exc.message = "Failed to read JSON file: File does not exist: conf.json"

====
